---- MODULE Spec2Model ----
(***************************************************************************)
(* Trajectory graph and pruning manager of the adaptive web agent          *)
(* (src/src/trajectory_graph.py, src/src/pruning.py).                      *)
(*                                                                         *)
(* The graph is the two flat tables of the code (nodes and edges keyed by  *)
(* integer ids), the two adjacency maps, the dedup index, the root id and  *)
(* the two id counters.  Every public method is one action; `last` holds   *)
(* the call that was made last and what it returned or raised.             *)
(***************************************************************************)
EXTENDS Integers, Sequences, FiniteSets, TLC

VARIABLES nodes, edges, adjacency, reverse_adjacency, observation_to_state,
          root_state_id, next_node_id, next_edge_id,
          strategies, default_strategy, history, pruned_states, enabled,
          stats, cache_valid, cycle_cache, observation_hashes,
          propagate_failures, epsilon, combination_mode, composite_strategies,
          hooks, hook_calls,
          candidates, total_votes, criteria, legacy_items,
          max_retries, context, attempt_history,
          config, current_step, trajectory, steps_without_progress,
          retry_count, last_progress, pc, step, prunable, prune_base,
          task_type, run_result, last

graphVars == <<nodes, edges, adjacency, reverse_adjacency,
               observation_to_state, root_state_id, next_node_id,
               next_edge_id>>

\* What the strategy objects remember between calls: the cycle cache of
\* CycleElimination and the hash registry of Redundancy.
cacheVars == <<cache_valid, cycle_cache, observation_hashes>>

\* Constructor arguments of the strategy objects.
configVars == <<propagate_failures, epsilon, combination_mode,
                composite_strategies>>

\* PruningManager and the strategy objects: their counters, caches and
\* constructor arguments.
\* The hooks of the manager in the order of add_hook, and the calls they
\* have received so far, each with the decision it was handed.
hookVars == <<hooks, hook_calls>>

mgrVars == <<strategies, default_strategy, history, pruned_states, enabled,
             stats, cache_valid, cycle_cache, observation_hashes,
             propagate_failures, epsilon, combination_mode,
             composite_strategies, hooks, hook_calls>>

\* The other components an agent holds: the VoteDistribution its estimator
\* works on (the candidates in the insertion order of the dict) and its
\* Checklist (the criteria in list order, the legacy `items` by id).
\* The RecoveryManager: its max_retries, the context dict its caller hands
\* to assess_failure and execute_recovery, and the attempts recorded.
recVars == <<max_retries, context, attempt_history>>

\* AdaptiveWebAgent: its config and counters, the position of run_task (pc),
\* the Step that execute_step is working on together with the ids
\* _update_trajectory_graph found, the list _prune_trajectory runs through
\* and the length the manager's history had when that loop began, and the
\* result dict of run_task.  task_type stands for _current_checklist: it is
\* NoTaskType while the agent has none.
loopVars == <<config, current_step, trajectory, steps_without_progress,
              retry_count, last_progress, pc, step, prunable, prune_base,
              task_type, run_result>>

agentVars == <<candidates, total_votes, criteria, legacy_items,
               max_retries, context, attempt_history,
               config, current_step, trajectory, steps_without_progress,
               retry_count, last_progress, pc, step, prunable, prune_base,
               task_type, run_result>>

vars == <<nodes, edges, adjacency, reverse_adjacency, observation_to_state,
          root_state_id, next_node_id, next_edge_id,
          strategies, default_strategy, history, pruned_states, enabled,
          stats, cache_valid, cycle_cache, observation_hashes,
          propagate_failures, epsilon, combination_mode, composite_strategies,
          hooks, hook_calls,
          candidates, total_votes, criteria, legacy_items,
          max_retries, context, attempt_history,
          config, current_step, trajectory, steps_without_progress,
          retry_count, last_progress, pc, step, prunable, prune_base,
          task_type, run_result, last>>

(***************************************************************************)
(* Bounds of the model.                                                    *)
(***************************************************************************)
MaxNodes == 3
MaxEdges == 2

\* Python's None where the code stores Optional[int].
NoneId == -1

(***************************************************************************)
(* Observation payloads.  A payload is a Python value: a str, an int, a    *)
(* dict with str keys (items in insertion order) or a list.  The fields    *)
(* carry different names per type so that values of different types are    *)
(* simply unequal.                                                         *)
(***************************************************************************)
PyStr(s) == [t |-> "str", s |-> s]
PyInt(n) == [t |-> "int", n |-> n]
PyDict(items) == [t |-> "dict", items |-> items]
PyList(xs) == [t |-> "list", xs |-> xs]

Digits == <<"0", "1", "2", "3", "4", "5", "6", "7", "8", "9">>

RECURSIVE NatStr(_)
NatStr(n) == IF n < 10 THEN Digits[n + 1]
             ELSE NatStr(n \div 10) \o Digits[(n % 10) + 1]

\* str(int) / the JSON text of an int.
IntStr(n) == IF n < 0 THEN "-" \o NatStr(0 - n) ELSE NatStr(n)

\* Keys the dict payloads use, in the order sorted() puts them.
KeyOrder == <<"a", "b">>

\* json.dumps of a scalar inside a container: a str is quoted.
JsonScalar(v) == IF v.t = "str" THEN "\"" \o v.s \o "\"" ELSE IntStr(v.n)

RECURSIVE JoinComma(_)
JoinComma(parts) ==
    IF Len(parts) = 0 THEN ""
    ELSE IF Len(parts) = 1 THEN parts[1]
    ELSE parts[1] \o ", " \o JoinComma(Tail(parts))

\* The items of a dict in sorted key order (sort_keys=True).
RECURSIVE SortedItems(_, _)
SortedItems(items, k) ==
    IF k > Len(KeyOrder) THEN <<>>
    ELSE LET here == SelectSeq(items, LAMBDA it : it[1] = KeyOrder[k])
         IN  here \o SortedItems(items, k + 1)

\* json.dumps(observation, sort_keys=True, default=str)
JsonDumps(o) ==
    IF o.t = "int" THEN IntStr(o.n)
    ELSE IF o.t = "str" THEN JsonScalar(o)
    ELSE IF o.t = "list"
        THEN "[" \o JoinComma([i \in 1..Len(o.xs) |-> JsonScalar(o.xs[i])]) \o "]"
    ELSE LET its == SortedItems(o.items, 1)
         IN  "{" \o JoinComma([i \in 1..Len(its) |->
                       "\"" \o its[i][1] \o "\": " \o JsonScalar(its[i][2])])
                 \o "}"

\* hashlib.sha256(s).hexdigest()[:16].  The digest is taken as collision
\* free on the strings of the model: equal digests iff equal strings.
Sha256Hex16(s) == s

GetStateHash(observation) ==
    LET obs_str == IF observation.t = "str" THEN observation.s
                   ELSE JsonDumps(observation)
    IN  Sha256Hex16(obs_str)

(***************************************************************************)
(* Call records: the method called last, its arguments, what it returned   *)
(* and the error it raised.  prune_branch also notes whether its target    *)
(* was pruned when the call was made.                                      *)
(***************************************************************************)
Call(op, args, ret, err) == [op |-> op, args |-> args, ret |-> ret, err |-> err]
NoErr == ""

(***************************************************************************)
(* TrajectoryGraph                                                         *)
(***************************************************************************)
GraphNode(state_id, observation_hash, action, data, metadata, timestamp) ==
    [state_id |-> state_id, observation_hash |-> observation_hash,
     action |-> action, observation_data |-> data, metadata |-> metadata,
     is_pruned |-> FALSE, timestamp |-> timestamp]

GraphEdge(edge_id, source, target, weight, success, action, metadata) ==
    [edge_id |-> edge_id, source |-> source, target |-> target,
     weight |-> weight, success |-> success, action |-> action,
     metadata |-> metadata]

\* dict.get(key, []) on an adjacency map.
AdjGet(adj, sid) == IF sid \in DOMAIN adj THEN adj[sid] ELSE <<>>

\* The keys of a table in insertion order (ids are handed out increasing).
RECURSIVE KeysInOrder(_)
KeysInOrder(S) ==
    IF S = {} THEN <<>>
    ELSE LET m == CHOOSE x \in S : \A y \in S : x <= y
         IN  <<m>> \o KeysInOrder(S \ {m})

\* TrajectoryGraph.__init__ / reset: the empty graph.
EmptyMap == [x \in {} |-> 0]

GraphInit ==
    /\ nodes = EmptyMap
    /\ edges = EmptyMap
    /\ adjacency = EmptyMap
    /\ reverse_adjacency = EmptyMap
    /\ observation_to_state = EmptyMap
    /\ root_state_id = NoneId
    /\ next_node_id = 0
    /\ next_edge_id = 0

\* add_state past the dedup check: allocate the id and register the node.
AddNewState(obs_hash, observation, action, metadata, timestamp) ==
    LET state_id == next_node_id
        node == GraphNode(state_id, obs_hash, action, observation, metadata,
                          timestamp)
    IN  /\ next_node_id' = next_node_id + 1
        /\ nodes' = nodes @@ (state_id :> node)
        /\ adjacency' = adjacency @@ (state_id :> <<>>)
        /\ reverse_adjacency' = reverse_adjacency @@ (state_id :> <<>>)
        /\ observation_to_state' =
               observation_to_state @@ (obs_hash :> state_id)
        /\ root_state_id' = IF root_state_id = NoneId THEN state_id
                            ELSE root_state_id
        /\ last' = Call("add_state", <<observation>>, state_id, NoErr)
        /\ UNCHANGED <<edges, next_edge_id>>

\* add_state whose dedup hit refreshes the stored action label.
AddStateRefreshAction(observation, action, metadata, timestamp) ==
    LET obs_hash == GetStateHash(observation) IN
    IF obs_hash \in DOMAIN observation_to_state
    THEN /\ nodes' = [nodes EXCEPT
                         ![observation_to_state[obs_hash]].action = action]
         /\ last' = Call("add_state", <<observation>>,
                         observation_to_state[obs_hash], NoErr)
         /\ UNCHANGED <<edges, adjacency, reverse_adjacency,
                        observation_to_state, root_state_id, next_node_id,
                        next_edge_id>>
    ELSE AddNewState(obs_hash, observation, action, metadata, timestamp)

\* add_state whose dedup hit brings a pruned node back.
AddStateRevive(observation, action, metadata, timestamp) ==
    LET obs_hash == GetStateHash(observation) IN
    IF obs_hash \in DOMAIN observation_to_state
    THEN /\ nodes' = [nodes EXCEPT
                         ![observation_to_state[obs_hash]].is_pruned = FALSE]
         /\ last' = Call("add_state", <<observation>>,
                         observation_to_state[obs_hash], NoErr)
         /\ UNCHANGED <<edges, adjacency, reverse_adjacency,
                        observation_to_state, root_state_id, next_node_id,
                        next_edge_id>>
    ELSE AddNewState(obs_hash, observation, action, metadata, timestamp)

\* add_state without the look into the dedup index.
AddStateNoDedup(observation, action, metadata, timestamp) ==
    AddNewState(GetStateHash(observation), observation, action, metadata,
                timestamp)

AddState(observation, action, metadata, timestamp) ==
    LET obs_hash == GetStateHash(observation) IN
    IF obs_hash \in DOMAIN observation_to_state
    THEN /\ last' = Call("add_state", <<observation>>,
                         observation_to_state[obs_hash], NoErr)
         /\ UNCHANGED graphVars
    ELSE AddNewState(obs_hash, observation, action, metadata, timestamp)

\* add_edge that takes the edge id before it validates the endpoints.
AddEdgeAllocFirst(from_state, to_state, weight, success, action, metadata) ==
    IF from_state \notin DOMAIN nodes \/ to_state \notin DOMAIN nodes
    THEN /\ next_edge_id' = next_edge_id + 1
         /\ last' = Call("add_edge", <<from_state, to_state>>,
                         IF from_state \notin DOMAIN nodes THEN from_state
                         ELSE to_state,
                         IF from_state \notin DOMAIN nodes
                         THEN "Source state does not exist"
                         ELSE "Target state does not exist")
         /\ UNCHANGED <<nodes, edges, adjacency, reverse_adjacency,
                        observation_to_state, root_state_id, next_node_id>>
    ELSE LET edge_id == next_edge_id
             edge == GraphEdge(edge_id, from_state, to_state, weight,
                               success, action, metadata)
         IN  /\ next_edge_id' = next_edge_id + 1
             /\ edges' = edges @@ (edge_id :> edge)
             /\ adjacency' =
                    [adjacency EXCEPT ![from_state] = Append(@, edge_id)]
             /\ reverse_adjacency' =
                    [reverse_adjacency EXCEPT ![to_state] = Append(@, edge_id)]
             /\ last' = Call("add_edge", <<from_state, to_state>>, edge_id,
                             NoErr)
             /\ UNCHANGED <<nodes, observation_to_state, root_state_id,
                            next_node_id>>

AddEdge(from_state, to_state, weight, success, action, metadata) ==
    IF from_state \notin DOMAIN nodes
    THEN /\ last' = Call("add_edge", <<from_state, to_state>>, from_state,
                         "Source state does not exist")
         /\ UNCHANGED graphVars
    ELSE IF to_state \notin DOMAIN nodes
    THEN /\ last' = Call("add_edge", <<from_state, to_state>>, to_state,
                         "Target state does not exist")
         /\ UNCHANGED graphVars
    ELSE LET edge_id == next_edge_id
             edge == GraphEdge(edge_id, from_state, to_state, weight,
                               success, action, metadata)
         IN  /\ next_edge_id' = next_edge_id + 1
             /\ edges' = edges @@ (edge_id :> edge)
             /\ adjacency' =
                    [adjacency EXCEPT ![from_state] = Append(@, edge_id)]
             /\ reverse_adjacency' =
                    [reverse_adjacency EXCEPT ![to_state] = Append(@, edge_id)]
             /\ last' = Call("add_edge", <<from_state, to_state>>, edge_id,
                             NoErr)
             /\ UNCHANGED <<nodes, observation_to_state, root_state_id,
                            next_node_id>>

\* detect_cycles: the nested dfs with its shared visited / rec_stack / path /
\* cycles, as a record threaded through the recursion.
SeqIndex(path, x) == CHOOSE i \in 1..Len(path) :
                        /\ path[i] = x
                        /\ \A j \in 1..(i - 1) : path[j] # x

RECURSIVE Dfs(_, _, _, _)
RECURSIVE DfsEdges(_, _, _, _, _)
Dfs(st, E, adj, state_id) ==
    LET st1 == [st EXCEPT !.visited = @ \cup {state_id},
                          !.rec_stack = @ \cup {state_id},
                          !.path = Append(@, state_id)]
        st2 == DfsEdges(st1, E, adj, state_id, 1)
    IN  [st2 EXCEPT !.path = SubSeq(@, 1, Len(@) - 1),
                    !.rec_stack = @ \ {state_id}]

\* The loop over the neighbours that leaves the closing id off a cycle.
DfsEdgesOpenCycle(st, E, adj, state_id, i) ==
    IF i > Len(AdjGet(adj, state_id)) THEN st
    ELSE LET neighbor == E[AdjGet(adj, state_id)[i]].target
             st1 == IF neighbor \notin st.visited
                    THEN Dfs(st, E, adj, neighbor)
                    ELSE IF neighbor \in st.rec_stack
                    THEN LET cycle_start == SeqIndex(st.path, neighbor)
                             cycle == SubSeq(st.path, cycle_start,
                                             Len(st.path))
                         IN  [st EXCEPT !.cycles = Append(@, cycle)]
                    ELSE st
         IN  DfsEdges(st1, E, adj, state_id, i + 1)

\* The loop over the neighbours that takes no edge of a node to itself for a
\* cycle.
DfsEdgesNoSelfLoop(st, E, adj, state_id, i) ==
    IF i > Len(AdjGet(adj, state_id)) THEN st
    ELSE LET neighbor == E[AdjGet(adj, state_id)[i]].target
             st1 == IF neighbor \notin st.visited
                    THEN Dfs(st, E, adj, neighbor)
                    ELSE IF neighbor \in st.rec_stack /\ neighbor # state_id
                    THEN LET cycle_start == SeqIndex(st.path, neighbor)
                             cycle == SubSeq(st.path, cycle_start,
                                             Len(st.path)) \o <<neighbor>>
                         IN  [st EXCEPT !.cycles = Append(@, cycle)]
                    ELSE st
         IN  DfsEdges(st1, E, adj, state_id, i + 1)

DfsEdges(st, E, adj, state_id, i) ==
    IF i > Len(AdjGet(adj, state_id)) THEN st
    ELSE LET neighbor == E[AdjGet(adj, state_id)[i]].target
             st1 == IF neighbor \notin st.visited
                    THEN Dfs(st, E, adj, neighbor)
                    ELSE IF neighbor \in st.rec_stack
                    THEN LET cycle_start == SeqIndex(st.path, neighbor)
                             cycle == SubSeq(st.path, cycle_start,
                                             Len(st.path)) \o <<neighbor>>
                         IN  [st EXCEPT !.cycles = Append(@, cycle)]
                    ELSE st
         IN  DfsEdges(st1, E, adj, state_id, i + 1)

RECURSIVE DfsRoots(_, _, _, _)
DfsRoots(st, E, adj, ids) ==
    IF ids = <<>> THEN st
    ELSE LET st1 == IF Head(ids) \notin st.visited
                    THEN Dfs(st, E, adj, Head(ids)) ELSE st
         IN  DfsRoots(st1, E, adj, Tail(ids))

DetectCycles(N, E, adj) ==
    DfsRoots([visited |-> {}, rec_stack |-> {}, path |-> <<>>,
              cycles |-> <<>>], E, adj, KeysInOrder(DOMAIN N)).cycles

\* The members of a cycle list entry: cycle[:-1].
CycleMembers(cycle) == {cycle[i] : i \in 1..(Len(cycle) - 1)}

\* get_prunable_branches that tests an exit against the node's own cycles
\* only and takes any edge, failed or not, as an exit.
GetPrunableBranchesAnyExit(N, E, adj) ==
    LET dead == {sid \in DOMAIN N :
                    /\ ~N[sid].is_pruned
                    /\ \/ AdjGet(adj, sid) = <<>>
                       \/ \A i \in 1..Len(AdjGet(adj, sid)) :
                              ~E[AdjGet(adj, sid)[i]].success}
        cycles == DetectCycles(N, E, adj)
        cycle_nodes == UNION {CycleMembers(cycles[i]) : i \in 1..Len(cycles)}
        stuck == {sid \in cycle_nodes :
                    /\ sid \in DOMAIN N
                    /\ ~N[sid].is_pruned
                    /\ ~\E i \in 1..Len(AdjGet(adj, sid)) :
                           E[AdjGet(adj, sid)[i]].target \notin cycle_nodes}
    IN  dead \cup stuck

\* get_prunable_branches that counts every cycle member as stuck.
GetPrunableBranchesAllMembers(N, E, adj) ==
    LET dead == {sid \in DOMAIN N :
                    /\ ~N[sid].is_pruned
                    /\ \/ AdjGet(adj, sid) = <<>>
                       \/ \A i \in 1..Len(AdjGet(adj, sid)) :
                              ~E[AdjGet(adj, sid)[i]].success}
        cycles == DetectCycles(N, E, adj)
        cycle_nodes == UNION {CycleMembers(cycles[i]) : i \in 1..Len(cycles)}
        stuck == {sid \in cycle_nodes :
                    sid \in DOMAIN N /\ ~N[sid].is_pruned}
    IN  dead \cup stuck

\* get_prunable_branches, as the set the returned list is built from.
GetPrunableBranches(N, E, adj) ==
    LET dead == {sid \in DOMAIN N :
                    /\ ~N[sid].is_pruned
                    /\ \/ AdjGet(adj, sid) = <<>>
                       \/ \A i \in 1..Len(AdjGet(adj, sid)) :
                              ~E[AdjGet(adj, sid)[i]].success}
        cycles == DetectCycles(N, E, adj)
        cycle_nodes == UNION {CycleMembers(cycles[i]) : i \in 1..Len(cycles)}
        stuck == {sid \in cycle_nodes :
                    /\ sid \in DOMAIN N
                    /\ ~N[sid].is_pruned
                    /\ ~\E i \in 1..Len(AdjGet(adj, sid)) :
                           LET edge == E[AdjGet(adj, sid)[i]]
                           IN  edge.target \notin cycle_nodes /\ edge.success}
    IN  dead \cup stuck

\* prune_branch: prune_recursive with its local `pruned` set; st is the node
\* table together with that set.
RECURSIVE PruneRecursive(_, _, _, _)
RECURSIVE PruneChildren(_, _, _, _, _)
\* prune_recursive that stops at a node whose flag is already set.
PruneRecursiveStopAtPruned(st, E, adj, sid) ==
    IF sid \notin DOMAIN st.nodes THEN st
    ELSE IF sid \in st.pruned \/ st.nodes[sid].is_pruned THEN st
    ELSE LET st1 == [nodes |-> [st.nodes EXCEPT ![sid].is_pruned = TRUE],
                     pruned |-> st.pruned \cup {sid}]
         IN  PruneChildren(st1, E, adj, sid, 1)

\* prune_recursive that takes the node out of the table.
PruneRecursiveDelete(st, E, adj, sid) ==
    IF sid \in st.pruned \/ sid \notin DOMAIN st.nodes THEN st
    ELSE LET st1 == [nodes |-> [n \in DOMAIN st.nodes \ {sid} |->
                                   st.nodes[n]],
                     pruned |-> st.pruned \cup {sid}]
         IN  PruneChildren(st1, E, adj, sid, 1)

PruneRecursive(st, E, adj, sid) ==
    IF sid \in st.pruned \/ sid \notin DOMAIN st.nodes THEN st
    ELSE LET st1 == [nodes |-> [st.nodes EXCEPT ![sid].is_pruned = TRUE],
                     pruned |-> st.pruned \cup {sid}]
         IN  PruneChildren(st1, E, adj, sid, 1)

\* The loop over the children following successful edges only.
PruneChildrenSuccessOnly(st, E, adj, sid, i) ==
    IF i > Len(AdjGet(adj, sid)) THEN st
    ELSE LET edge == E[AdjGet(adj, sid)[i]]
             st1 == IF edge.success
                    THEN PruneRecursive(st, E, adj, edge.target) ELSE st
         IN  PruneChildren(st1, E, adj, sid, i + 1)

\* The loop over the children that also climbs to the parents.
PruneChildrenAndParents(st, E, adj, sid, i) ==
    IF i > Len(AdjGet(adj, sid))
    THEN [nodes |-> [n \in DOMAIN st.nodes |->
                        IF \E e \in DOMAIN E :
                               E[e].source = n /\ E[e].target = sid
                        THEN [st.nodes[n] EXCEPT !.is_pruned = TRUE]
                        ELSE st.nodes[n]],
          pruned |-> st.pruned]
    ELSE LET child_id == E[AdjGet(adj, sid)[i]].target
         IN  PruneChildren(PruneRecursive(st, E, adj, child_id), E, adj,
                           sid, i + 1)

PruneChildren(st, E, adj, sid, i) ==
    IF i > Len(AdjGet(adj, sid)) THEN st
    ELSE LET child_id == E[AdjGet(adj, sid)[i]].target
         IN  PruneChildren(PruneRecursive(st, E, adj, child_id), E, adj,
                           sid, i + 1)

PruneBranch(state_id) ==
    IF state_id \notin DOMAIN nodes
    THEN /\ last' = Call("prune_branch", <<state_id, FALSE>>, {},
                         "State does not exist")
         /\ UNCHANGED graphVars
    ELSE LET st == PruneRecursive([nodes |-> nodes, pruned |-> {}], edges,
                                  adjacency, state_id)
         IN  /\ nodes' = st.nodes
             /\ last' = Call("prune_branch",
                             <<state_id, nodes[state_id].is_pruned>>,
                             st.pruned, NoErr)
             /\ UNCHANGED <<edges, adjacency, reverse_adjacency,
                            observation_to_state, root_state_id,
                            next_node_id, next_edge_id>>

Reset ==
    /\ nodes' = EmptyMap
    /\ edges' = EmptyMap
    /\ adjacency' = EmptyMap
    /\ reverse_adjacency' = EmptyMap
    /\ observation_to_state' = EmptyMap
    /\ root_state_id' = NoneId
    /\ next_node_id' = 0
    /\ next_edge_id' = 0
    /\ last' = Call("reset", <<>>, NoneId, NoErr)

\* get_path_to_state: the loop over the edges of the node taken off the
\* queue, with st = [queue, visited]; queue entries are <<node, path>>.
RECURSIVE PathEdgesSuccessOnly(_, _, _, _, _)
PathEdgesSuccessOnly(E, edge_ids, i, path, st) ==
    IF i > Len(edge_ids) THEN st
    ELSE LET neighbor == E[edge_ids[i]].target
         IN  IF neighbor \notin st.visited /\ E[edge_ids[i]].success
             THEN PathEdgesSuccessOnly(E, edge_ids, i + 1, path,
                      [queue |-> Append(st.queue,
                                        <<neighbor, Append(path, neighbor)>>),
                       visited |-> st.visited \cup {neighbor}])
             ELSE PathEdgesSuccessOnly(E, edge_ids, i + 1, path, st)

RECURSIVE PathEdges(_, _, _, _, _)
PathEdges(E, edge_ids, i, path, st) ==
    IF i > Len(edge_ids) THEN st
    ELSE LET neighbor == E[edge_ids[i]].target
         IN  IF neighbor \notin st.visited
             THEN PathEdges(E, edge_ids, i + 1, path,
                      [queue |-> Append(st.queue,
                                        <<neighbor, Append(path, neighbor)>>),
                       visited |-> st.visited \cup {neighbor}])
             ELSE PathEdges(E, edge_ids, i + 1, path, st)

\* get_path_to_state: the breadth-first loop.
RECURSIVE Bfs(_, _, _, _)
Bfs(E, adj, state_id, st) ==
    IF st.queue = <<>> THEN <<>>
    ELSE LET current == Head(st.queue)[1]
             path == Head(st.queue)[2]
         IN  IF current = state_id THEN path
             ELSE Bfs(E, adj, state_id,
                      PathEdges(E, AdjGet(adj, current), 1, path,
                                [queue |-> Tail(st.queue),
                                 visited |-> st.visited]))

GetPathToState(state_id) ==
    /\ last' = IF state_id \notin DOMAIN nodes
               THEN Call("get_path_to_state", <<state_id>>, <<>>,
                         "State does not exist")
               ELSE IF root_state_id = NoneId
               THEN Call("get_path_to_state", <<state_id>>, <<>>, NoErr)
               ELSE Call("get_path_to_state", <<state_id>>,
                         Bfs(edges, adjacency, state_id,
                             [queue |-> <<<<root_state_id,
                                            <<root_state_id>>>>>>,
                              visited |-> {root_state_id}]),
                         NoErr)
    /\ UNCHANGED graphVars

(***************************************************************************)
(* Pruning strategies and PruningManager                                   *)
(***************************************************************************)
\* PruningContext.was_successful: success_history.get(state_id, True).  A
\* context is given by the set of ids its success_history maps to False.
WasSuccessful(failed, state_id) == state_id \notin failed

\* PruningDecision (the timestamp, a clock reading, is left out).
PruningDecision(state_id, should_prune, strategy_name, reason, priority) ==
    [state_id |-> state_id, should_prune |-> should_prune,
     strategy_name |-> strategy_name, reason |-> reason,
     priority |-> priority]

\* PruningStrategy.__init__: the counters of a fresh strategy.
NewStats == [evaluations |-> 0, pruned |-> 0, kept |-> 0]

\* The strategies a caller registers, by name.
StrategyNames == {"DeadEnd"}
NoName == ""

\* DeadEndStrategy defaults: priority 5, failure_threshold 0.8 = 4 / 5.
DeadEndPriority == 5
FailureThresholdNum == 4
FailureThresholdDen == 5

\* DeadEndStrategy._calculate_failure_rate: the walk over the stack, with
\* acc = [visited, total, failures].
RECURSIVE FailureWalk(_, _, _, _, _)
FailureWalk(E, adj, failed, stack, acc) ==
    IF stack = <<>> THEN acc
    ELSE LET current == stack[Len(stack)]
             rest == SubSeq(stack, 1, Len(stack) - 1)
         IN  IF current \in acc.visited
             THEN FailureWalk(E, adj, failed, rest, acc)
             ELSE FailureWalk(E, adj, failed,
                      rest \o [i \in 1..Len(AdjGet(adj, current)) |->
                                  E[AdjGet(adj, current)[i]].target],
                      [visited |-> acc.visited \cup {current},
                       total |-> acc.total + 1,
                       failures |-> acc.failures +
                           (IF WasSuccessful(failed, current) THEN 0 ELSE 1)])

\* A failure rate that looks at the state alone, not at what it reaches.
CalculateFailureRateSelf(state_id, E, adj, failed) ==
    [visited |-> {state_id}, total |-> 1,
     failures |-> IF WasSuccessful(failed, state_id) THEN 0 ELSE 1]

CalculateFailureRate(state_id, E, adj, failed) ==
    FailureWalk(E, adj, failed, <<state_id>>,
                [visited |-> {}, total |-> 0, failures |-> 0])

\* DeadEndStrategy.should_prune: the decision and what the call adds to the
\* strategy's counters.
\* The reasons are the fixed part of the code's strings: the figures an
\* f-string appends to them (a rate, a similarity, a state id) are left out.
Verdict(decision, pruned, kept) ==
    [decision |-> decision, evaluations |-> 1, pruned |-> pruned,
     kept |-> kept]

DeadEndShouldPrune(state_id, N, E, adj, failed) ==
    IF state_id \notin DOMAIN N \/ N[state_id].is_pruned
    THEN Verdict(PruningDecision(state_id, FALSE, "DeadEnd",
                     "State does not exist or already pruned",
                     DeadEndPriority), 0, 0)
    ELSE LET outgoing_edges == AdjGet(adj, state_id)
             rate == CalculateFailureRate(state_id, E, adj, failed)
         IN  IF outgoing_edges = <<>>
             THEN Verdict(PruningDecision(state_id, TRUE, "DeadEnd",
                              "Leaf node with no outgoing edges",
                              DeadEndPriority), 1, 0)
             ELSE IF \A i \in 1..Len(outgoing_edges) :
                         ~E[outgoing_edges[i]].success
             THEN Verdict(PruningDecision(state_id, TRUE, "DeadEnd",
                              "All outgoing edges failed",
                              DeadEndPriority), 1, 0)
             ELSE IF /\ propagate_failures
                     /\ rate.failures * FailureThresholdDen
                            >= FailureThresholdNum * rate.total
             THEN Verdict(PruningDecision(state_id, TRUE, "DeadEnd",
                              "High failure rate", DeadEndPriority), 1, 0)
             ELSE Verdict(PruningDecision(state_id, FALSE, "DeadEnd",
                              "State has productive outgoing edges",
                              DeadEndPriority), 0, 1)

\* The strategy objects of the model, by name: one of each class, and one
\* composite, named as create_default_strategy names it.
LeafNames == {"CycleElimination", "DeadEnd", "Redundancy"}
CompositeName == "DefaultComposite"

CyclePriority == 10
RedundancyPriority == 3

\* strategy.priority
Priority(name) ==
    CASE name = "CycleElimination" -> CyclePriority
      [] name = "DeadEnd" -> DeadEndPriority
      [] name = "Redundancy" -> RedundancyPriority
      [] OTHER -> 0

\* The ids a success_history maps to False.
FailedOf(success_history) ==
    {i \in DOMAIN success_history : ~success_history[i]}

\* A PruningDecision constructed with metadata.
WithMetadata(decision, metadata) ==
    [state_id |-> decision.state_id, should_prune |-> decision.should_prune,
     strategy_name |-> decision.strategy_name, reason |-> decision.reason,
     priority |-> decision.priority, metadata |-> metadata]

\* CycleEliminationStrategy._get_cycles that detects anew on every call.
GetCyclesFresh(N, E, adj) == DetectCycles(N, E, adj)

\* CycleEliminationStrategy._get_cycles: the list the call works with (and
\* leaves in the cache).
GetCycles(N, E, adj) ==
    IF ~cache_valid THEN DetectCycles(N, E, adj) ELSE cycle_cache

\* _state_has_productive_exit that takes only a target recorded as
\* successful, or one that is unpruned with an outgoing edge.
StateHasProductiveExitRecorded(state_id, cycle_nodes, N, E, adj, failed) ==
    \E i \in 1..Len(AdjGet(adj, state_id)) :
        LET edge == E[AdjGet(adj, state_id)[i]]
            target_id == edge.target
        IN  /\ target_id \notin cycle_nodes
            /\ edge.success
            /\ target_id \in DOMAIN N
            /\ ~N[target_id].is_pruned
            /\ AdjGet(adj, target_id) # <<>>

\* CycleEliminationStrategy._state_has_productive_exit
StateHasProductiveExit(state_id, cycle_nodes, N, E, adj, failed) ==
    \E i \in 1..Len(AdjGet(adj, state_id)) :
        LET edge == E[AdjGet(adj, state_id)[i]]
            target_id == edge.target
        IN  /\ target_id \notin cycle_nodes
            /\ edge.success
            /\ \/ WasSuccessful(failed, target_id)
               \/ /\ target_id \in DOMAIN N
                  /\ ~N[target_id].is_pruned
                  /\ AdjGet(adj, target_id) # <<>>

\* The cycles of a list that hold state_id: state_id in c[:-1].
StateCycles(cycles, state_id) ==
    SelectSeq(cycles, LAMBDA c : state_id \in CycleMembers(c))

\* CycleEliminationStrategy.should_prune
CycleShouldPrune(state_id, N, E, adj, failed) ==
    IF state_id \notin DOMAIN N \/ N[state_id].is_pruned
    THEN Verdict(PruningDecision(state_id, FALSE, "CycleElimination",
                     "State does not exist or already pruned",
                     CyclePriority), 0, 1)
    ELSE LET state_cycles == StateCycles(GetCycles(N, E, adj), state_id)
         IN  IF state_cycles = <<>>
             THEN Verdict(PruningDecision(state_id, FALSE, "CycleElimination",
                              "State not in any cycle", CyclePriority), 0, 1)
             ELSE IF \E k \in 1..Len(state_cycles) :
                         StateHasProductiveExit(state_id,
                             CycleMembers(state_cycles[k]), N, E, adj, failed)
             THEN Verdict(PruningDecision(state_id, FALSE, "CycleElimination",
                              "Cycle has productive exit from state "
                                  \o NatStr(state_id),
                              CyclePriority), 0, 1)
             ELSE Verdict(WithMetadata(
                              PruningDecision(state_id, TRUE,
                                  "CycleElimination",
                                  "State in cycle without productive exits",
                                  CyclePriority),
                              [cycles |-> state_cycles]), 1, 0)

\* The cache a CycleElimination.should_prune call leaves behind.
CycleCacheAfter(state_id, N, E, adj) ==
    IF state_id \notin DOMAIN N \/ N[state_id].is_pruned
    THEN [valid |-> cache_valid, cycles |-> cycle_cache]
    ELSE [valid |-> TRUE, cycles |-> GetCycles(N, E, adj)]

\* RedundancyStrategy defaults: both checks on; epsilon counts twentieths
\* (0.1 = 2 / 20).  The model compares in exact arithmetic, which agrees with
\* the floating-point comparison for the epsilons used, no similarity of a
\* graph of this size being equal to 1 - epsilon.
UseHashComparison == TRUE
UseStructuralSimilarity == TRUE
EpsilonDen == 20
DefaultEpsilon == 2

\* graph.get_successors / graph.get_predecessors
GetSuccessors(N, E, adj, state_id) ==
    IF state_id \notin DOMAIN N THEN <<>>
    ELSE [i \in 1..Len(AdjGet(adj, state_id)) |->
             E[AdjGet(adj, state_id)[i]].target]

GetPredecessors(N, E, radj, state_id) ==
    IF state_id \notin DOMAIN N THEN <<>>
    ELSE [i \in 1..Len(AdjGet(radj, state_id)) |->
             E[AdjGet(radj, state_id)[i]].source]

\* The flattened list of the siblings the two loops of
\* _find_structurally_similar run through, in their order.
RECURSIVE SiblingList(_, _, _, _, _)
SiblingList(N, E, adj, predecessors, i) ==
    IF i > Len(predecessors) THEN <<>>
    ELSE GetSuccessors(N, E, adj, predecessors[i])
             \o SiblingList(N, E, adj, predecessors, i + 1)

\* Whether _find_structurally_similar may return this sibling.
IsCandidate(N, state_id, sibling_id) ==
    /\ sibling_id # state_id
    /\ sibling_id \in DOMAIN N
    /\ ~N[sibling_id].is_pruned

\* _calculate_similarity adding the successor overlap to the similarity
\* without the weights 0.7 and 0.3.
CalculateSimilarityUnweighted(state_id1, state_id2, N, E, adj) ==
    LET twice == (IF N[state_id1].action = N[state_id2].action
                  THEN 1 ELSE 0)
                 + (IF N[state_id1].observation_hash
                          = N[state_id2].observation_hash
                    THEN 1 ELSE 0)
        s1 == GetSuccessors(N, E, adj, state_id1)
        s2 == GetSuccessors(N, E, adj, state_id2)
        succ1 == {s1[i] : i \in 1..Len(s1)}
        succ2 == {s2[i] : i \in 1..Len(s2)}
    IN  IF succ1 \cup succ2 = {}
        THEN [num |-> twice, den |-> 2]
        ELSE [num |-> twice * Cardinality(succ1 \cup succ2)
                          + 2 * Cardinality(succ1 \cap succ2),
              den |-> 2 * Cardinality(succ1 \cup succ2)]

\* RedundancyStrategy._calculate_similarity, as the fraction num / den.
CalculateSimilarity(state_id1, state_id2, N, E, adj) ==
    LET twice == (IF N[state_id1].action = N[state_id2].action
                  THEN 1 ELSE 0)
                 + (IF N[state_id1].observation_hash
                          = N[state_id2].observation_hash
                    THEN 1 ELSE 0)
        s1 == GetSuccessors(N, E, adj, state_id1)
        s2 == GetSuccessors(N, E, adj, state_id2)
        succ1 == {s1[i] : i \in 1..Len(s1)}
        succ2 == {s2[i] : i \in 1..Len(s2)}
    IN  IF succ1 \cup succ2 = {}
        THEN [num |-> twice, den |-> 2]
        ELSE [num |-> 7 * twice * Cardinality(succ1 \cup succ2)
                          + 6 * Cardinality(succ1 \cap succ2),
              den |-> 20 * Cardinality(succ1 \cup succ2)]

\* similarity >= 1.0 - epsilon
Similar(sim) == sim.num * EpsilonDen >= (EpsilonDen - epsilon) * sim.den

\* RedundancyStrategy._find_structurally_similar
FindStructurallySimilar(state_id, N, E, adj, radj) ==
    LET siblings == SiblingList(N, E, adj,
                        GetPredecessors(N, E, radj, state_id), 1)
        found == SelectSeq(siblings, LAMBDA x : IsCandidate(N, state_id, x))
    IN  IF found = <<>> THEN NoneId ELSE found[1]

\* self._observation_hashes.get(h)
HashGet(registry, h) == IF h \in DOMAIN registry THEN registry[h] ELSE NoneId

\* The hash check switched off.
HashMatchOff(state_id, N) == FALSE

\* The hash check of RedundancyStrategy.should_prune finds a duplicate.
HashMatch(state_id, N) ==
    LET existing_id == HashGet(observation_hashes,
                               N[state_id].observation_hash)
    IN  /\ UseHashComparison
        /\ existing_id # NoneId
        /\ existing_id # state_id
        /\ existing_id \in DOMAIN N
        /\ ~N[existing_id].is_pruned

\* The registry a RedundancyStrategy.should_prune call leaves behind.
HashesAfter(state_id, N) ==
    IF state_id \notin DOMAIN N \/ N[state_id].is_pruned THEN observation_hashes
    ELSE LET h == N[state_id].observation_hash
             existing_id == HashGet(observation_hashes, h)
         IN  IF UseHashComparison
                  /\ (existing_id = NoneId \/ existing_id = state_id)
             THEN [x \in DOMAIN observation_hashes \cup {h} |->
                      IF x = h THEN state_id ELSE observation_hashes[x]]
             ELSE observation_hashes

\* RedundancyStrategy.should_prune
RedundancyShouldPrune(state_id, N, E, adj, failed) ==
    IF state_id \notin DOMAIN N \/ N[state_id].is_pruned
    THEN Verdict(PruningDecision(state_id, FALSE, "Redundancy",
                     "State does not exist or already pruned",
                     RedundancyPriority), 0, 0)
    ELSE LET similar_state == FindStructurallySimilar(state_id, N, E, adj,
                                  reverse_adjacency)
         IN  IF HashMatch(state_id, N)
             THEN Verdict(WithMetadata(
                              PruningDecision(state_id, TRUE, "Redundancy",
                                  "Duplicate observation hash",
                                  RedundancyPriority),
                              [reason_type |-> "hash_match",
                               similar_state |->
                                   observation_hashes[
                                       N[state_id].observation_hash]]), 1, 0)
             ELSE IF /\ UseStructuralSimilarity
                     /\ similar_state # NoneId
                     /\ Similar(CalculateSimilarity(state_id, similar_state,
                                                    N, E, adj))
             THEN Verdict(WithMetadata(
                              PruningDecision(state_id, TRUE, "Redundancy",
                                  "Structurally similar",
                                  RedundancyPriority),
                              [reason_type |-> "structural_similarity",
                               similar_state |-> similar_state]), 1, 0)
             ELSE Verdict(PruningDecision(state_id, FALSE, "Redundancy",
                              "State is unique", RedundancyPriority), 0, 0)

\* The strategies asked about a graph whose is_pruned flags they do not see.
LeafShouldPruneUnflagged(name, state_id, N, E, adj, failed) ==
    LET M == [n \in DOMAIN N |-> [N[n] EXCEPT !.is_pruned = FALSE]]
    IN  CASE name = "CycleElimination" ->
                 CycleShouldPrune(state_id, M, E, adj, failed)
          [] name = "Redundancy" ->
                 RedundancyShouldPrune(state_id, M, E, adj, failed)
          [] OTHER -> DeadEndShouldPrune(state_id, M, E, adj, failed)

\* should_prune of a strategy that is not a composite.
LeafShouldPrune(name, state_id, N, E, adj, failed) ==
    CASE name = "CycleElimination" ->
             CycleShouldPrune(state_id, N, E, adj, failed)
      [] name = "Redundancy" ->
             RedundancyShouldPrune(state_id, N, E, adj, failed)
      [] OTHER -> DeadEndShouldPrune(state_id, N, E, adj, failed)

\* _sort_strategies left out: the strategies stay in the order they came.
SortStrategiesNot(sorted, name) == Append(sorted, name)

\* CompositePruningStrategy._sort_strategies after an append to a sorted
\* list: list.sort is stable, so the new strategy goes behind every strategy
\* of the same or a higher priority.
SortStrategies(sorted, name) ==
    LET ahead == SelectSeq(sorted, LAMBDA n : Priority(n) >= Priority(name))
        behind == SelectSeq(sorted, LAMBDA n : Priority(n) < Priority(name))
    IN  ahead \o <<name>> \o behind

\* The decisions of the sub-strategies of the composite, in its order.
SubDecisions(state_id, N, E, adj, failed) ==
    [i \in 1..Len(composite_strategies) |->
        LeafShouldPrune(composite_strategies[i], state_id, N, E, adj,
                        failed).decision]

\* The position of the first sub-strategy that says prune, 0 if none does.
FirstPositive(decisions) ==
    IF \E i \in 1..Len(decisions) : decisions[i].should_prune
    THEN CHOOSE i \in 1..Len(decisions) :
             /\ decisions[i].should_prune
             /\ \A j \in 1..(i - 1) : ~decisions[j].should_prune
    ELSE 0

\* max(ds, key=lambda d: d.priority).priority
MaxPriority(ds) ==
    CHOOSE p \in {ds[i].priority : i \in 1..Len(ds)} :
        \A i \in 1..Len(ds) : ds[i].priority <= p

\* The sub-strategies a CompositePruningStrategy.should_prune call invokes:
\* PRIORITY mode stops at the first that says prune.
CompositeInvoked(state_id, N, E, adj, failed) ==
    LET decisions == SubDecisions(state_id, N, E, adj, failed)
        first == FirstPositive(decisions)
    IN  IF combination_mode = "priority" /\ first > 0
        THEN {composite_strategies[i] : i \in 1..first}
        ELSE {composite_strategies[i] : i \in 1..Len(composite_strategies)}

\* ANY mode that asks for a prune verdict from every sub-strategy.
AnyVerdictAsAll(decisions) ==
    \A i \in 1..Len(decisions) : decisions[i].should_prune

\* ANY mode: some sub-strategy says prune.
AnyVerdict(decisions) ==
    \E i \in 1..Len(decisions) : decisions[i].should_prune

\* CompositePruningStrategy.should_prune; the composite itself records
\* nothing in its own counters.
CompositeShouldPrune(state_id, N, E, adj, failed) ==
    LET decisions == SubDecisions(state_id, N, E, adj, failed)
        first == FirstPositive(decisions)
        positive == SelectSeq(decisions, LAMBDA d : d.should_prune)
        NoCount(decision) == [decision |-> decision, evaluations |-> 0,
                              pruned |-> 0, kept |-> 0]
    IN  IF composite_strategies = <<>>
        THEN NoCount(PruningDecision(state_id, FALSE, CompositeName,
                         "No strategies configured", 0))
        ELSE IF combination_mode = "priority"
        THEN IF first > 0
             THEN NoCount(WithMetadata(
                      PruningDecision(state_id, TRUE, CompositeName,
                          "Priority decision from "
                              \o composite_strategies[first] \o ": "
                              \o decisions[first].reason,
                          Priority(composite_strategies[first])),
                      [source_decision |-> decisions[first],
                       combination_mode |-> combination_mode]))
             ELSE NoCount(PruningDecision(state_id, FALSE, CompositeName,
                              "No high-priority strategy recommended pruning",
                              0))
        ELSE IF combination_mode = "any" /\ AnyVerdict(decisions)
        THEN NoCount(WithMetadata(
                 PruningDecision(state_id, TRUE, CompositeName,
                     "ANY mode: " \o NatStr(Len(positive))
                         \o " strategies recommended pruning",
                     MaxPriority(positive)),
                 [all_decisions |-> decisions,
                  combination_mode |-> combination_mode]))
        ELSE IF combination_mode = "all"
                  /\ \A i \in 1..Len(decisions) : decisions[i].should_prune
        THEN NoCount(WithMetadata(
                 PruningDecision(state_id, TRUE, CompositeName,
                     "ALL mode: All strategies recommended pruning",
                     MaxPriority(decisions)),
                 [all_decisions |-> decisions,
                  combination_mode |-> combination_mode]))
        ELSE NoCount(WithMetadata(
                 PruningDecision(state_id, FALSE, CompositeName,
                     "No consensus to prune", 0),
                 [all_decisions |-> decisions,
                  combination_mode |-> combination_mode]))

\* strategy.should_prune for the strategy object called `name`.
ShouldPrune(name, state_id, N, E, adj, failed) ==
    IF name = CompositeName
    THEN CompositeShouldPrune(state_id, N, E, adj, failed)
    ELSE LeafShouldPrune(name, state_id, N, E, adj, failed)

\* The strategies whose should_prune runs when `name` is evaluated.
Invoked(name, state_id, N, E, adj, failed) ==
    IF name = CompositeName
    THEN CompositeInvoked(state_id, N, E, adj, failed)
    ELSE {name}

\* What a should_prune call on `name` leaves in the strategy objects: the
\* counters, the cycle cache and the hash registry.
Counted(s, v) ==
    [evaluations |-> s.evaluations + v.evaluations,
     pruned |-> s.pruned + v.pruned, kept |-> s.kept + v.kept]

StrategyEffects(name, state_id, failed) ==
    \E inv \in {Invoked(name, state_id, nodes, edges, adjacency, failed)},
       after \in {CycleCacheAfter(state_id, nodes, edges, adjacency)} :
        /\ stats' = [n \in DOMAIN stats |->
                        IF n \in inv
                        THEN Counted(stats[n],
                                 LeafShouldPrune(n, state_id, nodes, edges,
                                                 adjacency, failed))
                        ELSE stats[n]]
        /\ cache_valid' = IF "CycleElimination" \in inv
                          THEN after.valid ELSE cache_valid
        /\ cycle_cache' = IF "CycleElimination" \in inv
                          THEN after.cycles ELSE cycle_cache
        /\ observation_hashes' = IF "Redundancy" \in inv
                                 THEN HashesAfter(state_id, nodes)
                                 ELSE observation_hashes

\* strategy.should_prune(state_id, graph, context) called on the object.
StrategyShouldPrune(name, state_id, success_history) ==
    /\ StrategyEffects(name, state_id, FailedOf(success_history))
    /\ last' = Call("should_prune", <<name, state_id, success_history>>,
                    ShouldPrune(name, state_id, nodes, edges, adjacency,
                                FailedOf(success_history)).decision, NoErr)
    /\ UNCHANGED <<graphVars, strategies, default_strategy, history,
                   pruned_states, enabled, configVars,
                   hookVars, agentVars>>

\* CycleEliminationStrategy.invalidate_cache
InvalidateCache ==
    /\ cache_valid' = FALSE
    /\ cycle_cache' = <<>>
    /\ last' = Call("invalidate_cache", <<>>, NoneId, NoErr)
    /\ UNCHANGED <<graphVars, strategies, default_strategy, history,
                   pruned_states, enabled, stats, observation_hashes,
                   configVars,
                   hookVars, agentVars>>

\* CompositePruningStrategy.add_strategy
AddStrategy(name) ==
    /\ composite_strategies' = SortStrategies(composite_strategies, name)
    /\ last' = Call("add_strategy", <<name>>, NoneId, NoErr)
    /\ UNCHANGED <<graphVars, strategies, default_strategy, history,
                   pruned_states, enabled, stats, cacheVars,
                   propagate_failures, epsilon, combination_mode, hookVars,
                   agentVars>>

\* The strategy objects as their constructors leave them, the composite as
\* create_default_strategy builds it.
StrategiesInit ==
    /\ stats = [n \in LeafNames \cup {CompositeName} |-> NewStats]
    /\ cache_valid = FALSE
    /\ cycle_cache = <<>>
    /\ observation_hashes = EmptyMap
    /\ propagate_failures = TRUE
    /\ epsilon = DefaultEpsilon
    /\ combination_mode = "priority"
    /\ composite_strategies = <<"CycleElimination", "DeadEnd", "Redundancy">>

\* RecoveryManager(max_retries=3) and AgentConfig(): the fields the loop of
\* run_task reads.  The thresholds are fractions.
DefaultMaxRetries == 3

\* The agent without a checklist: set_task_type was not called.
NoTaskType == ""

DefaultConfig ==
    [max_steps |-> 50, min_samples |-> 3, max_samples |-> 20,
     recovery_max_retries |-> 3,
     uncertainty_threshold |-> [num |-> 7, den |-> 10],
     stuck_threshold |-> [num |-> 3, den |-> 10]]

\* PruningManager.__init__
\* VoteDistribution() and Checklist() as constructed.
AgentInit ==
    /\ candidates = <<>>
    /\ total_votes = 0
    /\ criteria = <<>>
    /\ legacy_items = EmptyMap
    /\ max_retries = DefaultMaxRetries
    /\ context = EmptyMap
    /\ attempt_history = <<>>
    /\ config = DefaultConfig
    /\ current_step = 0
    /\ trajectory = <<>>
    /\ steps_without_progress = 0
    /\ retry_count = 0
    /\ last_progress = [num |-> 0, den |-> 1]
    /\ task_type = NoTaskType
    /\ pc = "idle"
    /\ step = EmptyMap
    /\ prunable = <<>>
    /\ prune_base = 0
    /\ run_result = EmptyMap

ManagerInit ==
    /\ strategies = {}
    /\ default_strategy = NoName
    /\ history = <<>>
    /\ pruned_states = {}
    /\ enabled = TRUE
    /\ hooks = <<>>
    /\ hook_calls = <<>>

\* register_strategy with a freshly constructed strategy object.
RegisterStrategy(name, set_as_default) ==
    /\ strategies' = strategies \cup {name}
    /\ stats' = [stats EXCEPT ![name] = NewStats]
    /\ default_strategy' = IF set_as_default \/ default_strategy = NoName
                           THEN name ELSE default_strategy
    /\ last' = Call("register_strategy", <<name>>, NoneId, NoErr)
    /\ UNCHANGED <<history, pruned_states, enabled, cacheVars, configVars,
                   hookVars, agentVars>>

DisabledDecision(state_id) ==
    PruningDecision(state_id, FALSE, "None", "Pruning is disabled", 0)

\* The strategy evaluate() resolves: `name or self.default_strategy`.
ResolveName(strategy_name) ==
    IF strategy_name = NoName THEN default_strategy ELSE strategy_name

\* A loop over the hooks that stops after the first one.
HookCallsFirstOnly(decision) ==
    IF hooks = <<>> THEN <<>>
    ELSE <<[hook |-> hooks[1], decision |-> decision]>>

\* The calls `for hook in self._hooks: hook(decision)` makes.  The hooks are
\* observers: they return, and they do not call back into the manager.
HookCalls(decision) ==
    [i \in 1..Len(hooks) |-> [hook |-> hooks[i], decision |-> decision]]

\* evaluate without the gate: the strategy is asked whether pruning is
\* enabled or not.
EvaluateBodyUngated(state_id, failed, strategy_name, decision) ==
    /\ StrategyEffects(ResolveName(strategy_name), state_id, failed)
    /\ history' = Append(history, decision)
    /\ pruned_states' = IF decision.should_prune
                        THEN pruned_states \cup {state_id}
                        ELSE pruned_states
    /\ hook_calls' = hook_calls \o HookCalls(decision)
    /\ UNCHANGED <<strategies, default_strategy, enabled, configVars, hooks,
                   agentVars>>

\* PruningManager.evaluate on everything but `last`.
EvaluateBody(state_id, failed, strategy_name, decision) ==
    IF ~enabled
    THEN UNCHANGED <<mgrVars, agentVars>>
    ELSE /\ StrategyEffects(ResolveName(strategy_name), state_id, failed)
         /\ history' = Append(history, decision)
         /\ pruned_states' = IF decision.should_prune
                             THEN pruned_states \cup {state_id}
                             ELSE pruned_states
         /\ hook_calls' = hook_calls \o HookCalls(decision)
         /\ UNCHANGED <<strategies, default_strategy, enabled, configVars,
                        hooks, agentVars>>

\* The decision evaluate returns: the strategy's, or the fixed one of a
\* disabled manager.
EvaluateDecision(state_id, failed, strategy_name) ==
    IF ~enabled THEN DisabledDecision(state_id)
    ELSE ShouldPrune(ResolveName(strategy_name), state_id, nodes, edges,
                     adjacency, failed).decision

\* get_strategy raises ValueError when the name is not registered.
StrategyMissing(strategy_name) ==
    enabled /\ ResolveName(strategy_name) \notin strategies

Evaluate(state_id, failed, strategy_name) ==
    IF StrategyMissing(strategy_name)
    THEN /\ last' = Call("evaluate", <<state_id>>, NoneId,
                         "Strategy not found")
         /\ UNCHANGED <<graphVars, mgrVars, agentVars>>
    ELSE \E decision \in {EvaluateDecision(state_id, failed, strategy_name)} :
           /\ EvaluateBody(state_id, failed, strategy_name, decision)
           /\ last' = Call("evaluate", <<state_id>>, decision, NoErr)
           /\ UNCHANGED graphVars

\* prune_if_needed that flags the evaluated state alone, not its branch.
PruneIfNeededStateOnly(state_id, failed, strategy_name) ==
    IF StrategyMissing(strategy_name)
    THEN /\ last' = Call("prune_if_needed", <<state_id>>, FALSE,
                         "Strategy not found")
         /\ UNCHANGED <<graphVars, mgrVars, agentVars>>
    ELSE \E decision \in {EvaluateDecision(state_id, failed, strategy_name)} :
           /\ EvaluateBody(state_id, failed, strategy_name, decision)
           /\ IF decision.should_prune /\ state_id \in DOMAIN nodes
              THEN /\ nodes' = [nodes EXCEPT ![state_id].is_pruned = TRUE]
                   /\ last' = Call("prune_if_needed", <<state_id>>, TRUE,
                                   NoErr)
              ELSE /\ nodes' = nodes
                   /\ last' = Call("prune_if_needed", <<state_id>>, FALSE,
                                   NoErr)
           /\ UNCHANGED <<edges, adjacency, reverse_adjacency,
                          observation_to_state, root_state_id, next_node_id,
                          next_edge_id>>

PruneIfNeeded(state_id, failed, strategy_name) ==
    IF StrategyMissing(strategy_name)
    THEN /\ last' = Call("prune_if_needed", <<state_id>>, FALSE,
                         "Strategy not found")
         /\ UNCHANGED <<graphVars, mgrVars, agentVars>>
    ELSE \E decision \in {EvaluateDecision(state_id, failed, strategy_name)} :
           /\ EvaluateBody(state_id, failed, strategy_name, decision)
           /\ IF decision.should_prune /\ state_id \in DOMAIN nodes
              THEN /\ nodes' = PruneRecursive(
                                   [nodes |-> nodes, pruned |-> {}], edges,
                                   adjacency, state_id).nodes
                   /\ last' = Call("prune_if_needed", <<state_id>>, TRUE,
                                   NoErr)
              ELSE /\ nodes' = nodes
                   /\ last' = Call("prune_if_needed", <<state_id>>, FALSE,
                                   NoErr)
           /\ UNCHANGED <<edges, adjacency, reverse_adjacency,
                          observation_to_state, root_state_id, next_node_id,
                          next_edge_id>>

\* PruningManager.add_hook
AddHook(hook) ==
    /\ hooks' = Append(hooks, hook)
    /\ last' = Call("add_hook", <<hook>>, NoneId, NoErr)
    /\ UNCHANGED <<graphVars, strategies, default_strategy, history,
                   pruned_states, enabled, stats, cacheVars, configVars,
                   hook_calls, agentVars>>

\* PruningManager.clear_history
ClearHistory ==
    /\ history' = <<>>
    /\ pruned_states' = {}
    /\ last' = Call("clear_history", <<>>, NoneId, NoErr)
    /\ UNCHANGED <<graphVars, strategies, default_strategy, enabled, stats,
                   cacheVars, configVars, hookVars, agentVars>>

Enable ==
    /\ enabled' = TRUE
    /\ last' = Call("enable", <<>>, NoneId, NoErr)
    /\ UNCHANGED <<graphVars, strategies, default_strategy, history,
                   pruned_states, stats, cacheVars, configVars,
                   hookVars, agentVars>>

Disable ==
    /\ enabled' = FALSE
    /\ last' = Call("disable", <<>>, NoneId, NoErr)
    /\ UNCHANGED <<graphVars, strategies, default_strategy, history,
                   pruned_states, stats, cacheVars, configVars,
                   hookVars, agentVars>>

(***************************************************************************)
(* Inputs of the calls.                                                    *)
(***************************************************************************)
NoTimestamp == NoneId
EmptyDict == {}

\* add_state calls (observation, action, metadata, timestamp) of the graph
\* specification: three observations, the first submitted in two ways.
AddStateCalls ==
    { <<PyStr("page a"), "click", EmptyDict, NoTimestamp>>,
      <<PyStr("page a"), "type", {<<"src", "retry">>}, NoTimestamp>>,
      <<PyDict(<<<<"a", PyInt(1)>>>>), "click", EmptyDict, NoTimestamp>>,
      <<PyList(<<PyInt(1)>>), "click", EmptyDict, NoTimestamp>> }

\* Node ids a caller may pass: the ids handed out and one that never was.
CallIds == 0..MaxNodes

Init ==
    /\ GraphInit
    /\ ManagerInit
    /\ AgentInit
    /\ StrategiesInit
    /\ last = Call("init", <<>>, NoneId, NoErr)

DoAddState ==
    \E c \in AddStateCalls :
        /\ \/ next_node_id < MaxNodes
           \/ GetStateHash(c[1]) \in DOMAIN observation_to_state
        /\ AddState(c[1], c[2], c[3], c[4])
        /\ UNCHANGED <<mgrVars, agentVars>>

DoAddEdge ==
    \E from_state \in CallIds, to_state \in CallIds, success \in BOOLEAN :
        /\ next_edge_id < MaxEdges
        /\ AddEdge(from_state, to_state, 1, success, "", EmptyDict)
        /\ UNCHANGED <<mgrVars, agentVars>>

DoPruneBranch ==
    \E state_id \in CallIds : PruneBranch(state_id)
        /\ UNCHANGED <<mgrVars, agentVars>>

DoReset == Reset /\ UNCHANGED <<mgrVars, agentVars>>

Next == DoAddState \/ DoAddEdge \/ DoPruneBranch \/ DoReset

Spec == Init /\ [][Next]_vars

(***************************************************************************)
(* The graph driven together with a PruningManager.                        *)
(***************************************************************************)
MgrMaxNodes == 2
MgrMaxEdges == 2
MaxHistory == 1

MgrAddStateCalls ==
    { <<PyStr("page a"), "click", EmptyDict, NoTimestamp>>,
      <<PyStr("page b"), "click", EmptyDict, NoTimestamp>> }

MgrCallIds == 0..MgrMaxNodes

\* success_history of the context passed in: empty, or False for every id.
MgrContexts == {{}, MgrCallIds}

MgrAddState ==
    \E c \in MgrAddStateCalls :
        /\ \/ next_node_id < MgrMaxNodes
           \/ GetStateHash(c[1]) \in DOMAIN observation_to_state
        /\ AddState(c[1], c[2], c[3], c[4])
        /\ UNCHANGED <<mgrVars, agentVars>>

MgrAddEdge ==
    \E from_state \in MgrCallIds, to_state \in MgrCallIds,
       success \in BOOLEAN :
        /\ next_edge_id < MgrMaxEdges
        /\ AddEdge(from_state, to_state, 1, success, "", EmptyDict)
        /\ UNCHANGED <<mgrVars, agentVars>>

MgrPruneBranch ==
    \E state_id \in MgrCallIds : PruneBranch(state_id)
        /\ UNCHANGED <<mgrVars, agentVars>>

MgrRegister ==
    \E name \in StrategyNames :
        /\ RegisterStrategy(name, FALSE)
        /\ UNCHANGED graphVars

MgrEvaluate ==
    \E state_id \in MgrCallIds, failed \in MgrContexts :
        /\ ~enabled \/ Len(history) < MaxHistory
        /\ Evaluate(state_id, failed, NoName)

MgrPruneIfNeeded ==
    \E state_id \in MgrCallIds, failed \in MgrContexts :
        /\ ~enabled \/ Len(history) < MaxHistory
        /\ PruneIfNeeded(state_id, failed, NoName)

NextMgr ==
    \/ MgrAddState \/ MgrAddEdge \/ MgrPruneBranch \/ DoReset
    \/ MgrRegister \/ MgrEvaluate \/ MgrPruneIfNeeded \/ Enable \/ Disable

SpecMgr == Init /\ [][NextMgr]_vars

(***************************************************************************)
(* add_state alone, over payloads of every type.                           *)
(***************************************************************************)
HashPayloads ==
    { PyStr("1"), PyInt(1),
      PyDict(<< <<"a", PyInt(1)>>, <<"b", PyStr("x")>> >>),
      PyDict(<< <<"b", PyStr("x")>>, <<"a", PyInt(1)>> >>),
      PyDict(<< <<"a", PyInt(1)>>, <<"b", PyInt(2)>> >>),
      PyStr("{\"a\": 1, \"b\": \"x\"}"),
      PyList(<<PyInt(1), PyInt(2)>>), PyList(<<PyInt(2), PyInt(1)>>),
      PyStr("page a") }

HashAddState ==
    \E observation \in HashPayloads, action \in {"click", "type"} :
        /\ \/ next_node_id < MaxNodes
           \/ GetStateHash(observation) \in DOMAIN observation_to_state
        /\ AddState(observation, action, EmptyDict, NoTimestamp)
        /\ UNCHANGED <<mgrVars, agentVars>>

NextHash == HashAddState \/ DoReset

SpecHash == Init /\ [][NextHash]_vars

(***************************************************************************)
(* add_state and add_edge alone, with room for a cycle over three nodes.   *)
(***************************************************************************)
CycleMaxEdges == 3

CycleAddStateCalls ==
    { <<PyStr("page a"), "click", EmptyDict, NoTimestamp>>,
      <<PyStr("page b"), "click", EmptyDict, NoTimestamp>>,
      <<PyStr("page c"), "click", EmptyDict, NoTimestamp>> }

CycleAddState ==
    \E c \in CycleAddStateCalls :
        /\ \/ next_node_id < MaxNodes
           \/ GetStateHash(c[1]) \in DOMAIN observation_to_state
        /\ AddState(c[1], c[2], c[3], c[4])
        /\ UNCHANGED <<mgrVars, agentVars>>

\* add_edge(from_state, to_state), every other argument at its default.
CycleAddEdge ==
    \E from_state \in 0..(MaxNodes - 1), to_state \in 0..(MaxNodes - 1) :
        /\ next_edge_id < CycleMaxEdges
        /\ AddEdge(from_state, to_state, 1, TRUE, "", EmptyDict)
        /\ UNCHANGED <<mgrVars, agentVars>>

NextCycle == CycleAddState \/ CycleAddEdge

SpecCycle == Init /\ [][NextCycle]_vars

(***************************************************************************)
(* add_state and add_edge alone, with room for a cycle that closes over an *)
(* edge to a node the search has left already.                             *)
(***************************************************************************)
DetectMaxEdges == 4

DetectAddEdge ==
    \E from_state \in 0..(MaxNodes - 1), to_state \in 0..(MaxNodes - 1) :
        /\ next_edge_id < DetectMaxEdges
        /\ AddEdge(from_state, to_state, 1, TRUE, "", EmptyDict)
        /\ UNCHANGED <<mgrVars, agentVars>>

NextDetect == CycleAddState \/ DetectAddEdge

SpecDetect == Init /\ [][NextDetect]_vars

(***************************************************************************)
(* The graph with get_path_to_state, with room for two routes to a node.   *)
(***************************************************************************)
PathMaxEdges == 3

\* add_edge between two different nodes.
PathAddEdge ==
    \E from_state \in 0..(MaxNodes - 1), to_state \in 0..(MaxNodes - 1),
       success \in BOOLEAN :
        /\ from_state # to_state
        /\ next_edge_id < PathMaxEdges
        /\ AddEdge(from_state, to_state, 1, success, "", EmptyDict)
        /\ UNCHANGED <<mgrVars, agentVars>>

PathGet ==
    \E state_id \in CallIds : GetPathToState(state_id)
        /\ UNCHANGED <<mgrVars, agentVars>>

NextPath == CycleAddState \/ PathAddEdge \/ DoPruneBranch \/ PathGet

SpecPath == Init /\ [][NextPath]_vars

(***************************************************************************)
(* The graph with a CycleEliminationStrategy called on it.                 *)
(***************************************************************************)
CeMaxEdges == 3
CeMaxEvals == 1

\* The success_history of the context passed in: empty, True for every id,
\* False for every id.
Histories ==
    {EmptyMap, [i \in MgrCallIds |-> TRUE], [i \in MgrCallIds |-> FALSE]}

CeAddEdge ==
    \E from_state \in 0..(MgrMaxNodes - 1), to_state \in 0..(MgrMaxNodes - 1),
       success \in BOOLEAN :
        /\ next_edge_id < CeMaxEdges
        /\ AddEdge(from_state, to_state, 1, success, "", EmptyDict)
        /\ UNCHANGED <<mgrVars, agentVars>>

CeShouldPrune ==
    \E state_id \in MgrCallIds, success_history \in Histories :
        /\ stats["CycleElimination"].evaluations < CeMaxEvals
        /\ StrategyShouldPrune("CycleElimination", state_id, success_history)

NextCe == MgrAddState \/ CeAddEdge \/ MgrPruneBranch \/ CeShouldPrune

SpecCe == Init /\ [][NextCe]_vars

(***************************************************************************)
(* The cycle cache: evaluations with edges added and the cache invalidated *)
(* in between.                                                             *)
(***************************************************************************)
CacheMaxEdges == 3
CacheMaxEvals == 3

CacheAddEdge ==
    \E from_state \in 0..(MgrMaxNodes - 1), to_state \in 0..(MgrMaxNodes - 1) :
        /\ next_edge_id < CacheMaxEdges
        /\ AddEdge(from_state, to_state, 1, TRUE, "", EmptyDict)
        /\ UNCHANGED <<mgrVars, agentVars>>

CacheShouldPrune ==
    \E state_id \in MgrCallIds :
        /\ stats["CycleElimination"].evaluations < CacheMaxEvals
        /\ StrategyShouldPrune("CycleElimination", state_id, EmptyMap)

NextCache ==
    MgrAddState \/ CacheAddEdge \/ CacheShouldPrune \/ InvalidateCache

SpecCache == Init /\ [][NextCache]_vars

(***************************************************************************)
(* The graph with a DeadEndStrategy called on it, constructed with         *)
(* propagate_failures on or off.                                           *)
(***************************************************************************)
DeMaxEdges == 2
DeMaxEvals == 1

\* Histories that fail nobody, everybody, and one node each.
DeHistories ==
    Histories \cup {[i \in {n} |-> FALSE] : n \in 0..(MaxNodes - 1)}

InitDe ==
    /\ GraphInit
    /\ ManagerInit
    /\ AgentInit
    /\ stats = [n \in LeafNames \cup {CompositeName} |-> NewStats]
    /\ cache_valid = FALSE
    /\ cycle_cache = <<>>
    /\ observation_hashes = EmptyMap
    /\ propagate_failures \in BOOLEAN
    /\ epsilon = DefaultEpsilon
    /\ combination_mode = "priority"
    /\ composite_strategies = <<"CycleElimination", "DeadEnd", "Redundancy">>
    /\ last = Call("init", <<>>, NoneId, NoErr)

DeAddEdge ==
    \E from_state \in 0..(MaxNodes - 1), to_state \in 0..(MaxNodes - 1),
       success \in BOOLEAN :
        /\ next_edge_id < DeMaxEdges
        /\ AddEdge(from_state, to_state, 1, success, "", EmptyDict)
        /\ UNCHANGED <<mgrVars, agentVars>>

DeShouldPrune ==
    \E state_id \in CallIds, success_history \in DeHistories :
        /\ stats["DeadEnd"].evaluations < DeMaxEvals
        /\ StrategyShouldPrune("DeadEnd", state_id, success_history)

NextDe == CycleAddState \/ DeAddEdge \/ DeShouldPrune

SpecDe == InitDe /\ [][NextDe]_vars

(***************************************************************************)
(* A RedundancyStrategy that outlives a reset of the graph it is called    *)
(* on.                                                                     *)
(***************************************************************************)
RegMaxEvals == 2

RegShouldPrune ==
    \E state_id \in MgrCallIds :
        /\ stats["Redundancy"].evaluations < RegMaxEvals
        /\ StrategyShouldPrune("Redundancy", state_id, EmptyMap)

NextReg ==
    \/ MgrAddState \/ MgrAddEdge \/ MgrPruneBranch \/ DoReset
    \/ RegShouldPrune

SpecReg == Init /\ [][NextReg]_vars

(***************************************************************************)
(* A RedundancyStrategy constructed with the default epsilon or with 0.6,  *)
(* called on a graph whose nodes have siblings.                            *)
(***************************************************************************)
SimMaxEdges == 3
SimMaxEvals == 1

\* epsilon = 0.6, in twentieths.
WideEpsilon == 12

InitSim ==
    /\ GraphInit
    /\ ManagerInit
    /\ AgentInit
    /\ stats = [n \in LeafNames \cup {CompositeName} |-> NewStats]
    /\ cache_valid = FALSE
    /\ cycle_cache = <<>>
    /\ observation_hashes = EmptyMap
    /\ propagate_failures = TRUE
    /\ epsilon \in {DefaultEpsilon, WideEpsilon}
    /\ combination_mode = "priority"
    /\ composite_strategies = <<"CycleElimination", "DeadEnd", "Redundancy">>
    /\ last = Call("init", <<>>, NoneId, NoErr)

\* Three observations, the last reached by another action than the others.
SimAddStateCalls ==
    { <<PyStr("page a"), "click", EmptyDict, NoTimestamp>>,
      <<PyStr("page b"), "click", EmptyDict, NoTimestamp>>,
      <<PyStr("page c"), "type", EmptyDict, NoTimestamp>> }

SimAddState ==
    \E c \in SimAddStateCalls :
        /\ \/ next_node_id < MaxNodes
           \/ GetStateHash(c[1]) \in DOMAIN observation_to_state
        /\ AddState(c[1], c[2], c[3], c[4])
        /\ UNCHANGED <<mgrVars, agentVars>>

SimAddEdge ==
    \E from_state \in 0..(MaxNodes - 1), to_state \in 0..(MaxNodes - 1) :
        /\ next_edge_id < SimMaxEdges
        /\ AddEdge(from_state, to_state, 1, TRUE, "", EmptyDict)
        /\ UNCHANGED <<mgrVars, agentVars>>

SimShouldPrune ==
    \E state_id \in CallIds :
        /\ stats["Redundancy"].evaluations < SimMaxEvals
        /\ StrategyShouldPrune("Redundancy", state_id, EmptyMap)

NextSim == SimAddState \/ SimAddEdge \/ SimShouldPrune

SpecSim == InitSim /\ [][NextSim]_vars

(***************************************************************************)
(* A CompositePruningStrategy built with add_strategy in one of the three  *)
(* modes and called on a graph that may be reset under it.                 *)
(***************************************************************************)
CompMaxEdges == 2
CompMaxEvals == 2

InitComp ==
    /\ GraphInit
    /\ ManagerInit
    /\ AgentInit
    /\ stats = [n \in LeafNames \cup {CompositeName} |-> NewStats]
    /\ cache_valid = FALSE
    /\ cycle_cache = <<>>
    /\ observation_hashes = EmptyMap
    /\ propagate_failures = TRUE
    /\ epsilon = DefaultEpsilon
    /\ combination_mode \in {"priority", "any", "all"}
    /\ composite_strategies = <<>>
    /\ last = Call("init", <<>>, NoneId, NoErr)

\* The strategies the composite is built from.
CompNames == {"CycleElimination", "DeadEnd"}

\* add_strategy of a strategy the composite does not hold yet.
CompAddStrategy ==
    \E name \in CompNames :
        /\ \A i \in 1..Len(composite_strategies) :
               composite_strategies[i] # name
        /\ AddStrategy(name)

CompAddEdge ==
    \E from_state \in 0..(MgrMaxNodes - 1), to_state \in 0..(MgrMaxNodes - 1),
       success \in BOOLEAN :
        /\ next_edge_id < CompMaxEdges
        /\ AddEdge(from_state, to_state, 1, success, "", EmptyDict)
        /\ UNCHANGED <<mgrVars, agentVars>>

CompShouldPrune ==
    \E state_id \in MgrCallIds :
        /\ \A n \in LeafNames : stats[n].evaluations < CompMaxEvals
        /\ StrategyShouldPrune(CompositeName, state_id, EmptyMap)

NextComp ==
    \/ MgrAddState \/ CompAddEdge \/ DoReset
    \/ CompAddStrategy \/ CompShouldPrune

SpecComp == InitComp /\ [][NextComp]_vars

(***************************************************************************)
(* The strategies called on the object and through a PruningManager, on    *)
(* ids in the graph, pruned or not, and ids absent from it.                *)
(***************************************************************************)
EvalMaxEdges == 1
EvalMaxEvals == 1

AllNames == LeafNames \cup {CompositeName}

\* A manager with nothing registered, and the composite of
\* create_default_strategy in one of the three modes.
InitEval ==
    /\ GraphInit
    /\ ManagerInit
    /\ AgentInit
    /\ stats = [n \in AllNames |-> NewStats]
    /\ cache_valid = FALSE
    /\ cycle_cache = <<>>
    /\ observation_hashes = EmptyMap
    /\ propagate_failures = TRUE
    /\ epsilon = DefaultEpsilon
    /\ combination_mode \in {"priority", "any", "all"}
    /\ composite_strategies = <<"CycleElimination", "DeadEnd", "Redundancy">>
    /\ last = Call("init", <<>>, NoneId, NoErr)

EvalAddEdge ==
    \E from_state, to_state \in 0..(MgrMaxNodes - 1) :
        /\ next_edge_id < EvalMaxEdges
        /\ AddEdge(from_state, to_state, 1, TRUE, "", EmptyDict)
        /\ UNCHANGED <<mgrVars, agentVars>>

\* One strategy is registered, and so is the default.
EvalRegister ==
    \E name \in AllNames :
        /\ strategies = {}
        /\ RegisterStrategy(name, FALSE)
        /\ UNCHANGED graphVars

\* No strategy has counted EvalMaxEvals evaluations yet, whoever asked.
EvalBudget == \A n \in LeafNames : stats[n].evaluations < EvalMaxEvals

EvalEvaluate ==
    \E state_id \in MgrCallIds :
        /\ Len(history) < MaxHistory
        /\ EvalBudget
        /\ Evaluate(state_id, {}, NoName)

EvalPruneIfNeeded ==
    \E state_id \in MgrCallIds :
        /\ Len(history) < MaxHistory
        /\ EvalBudget
        /\ PruneIfNeeded(state_id, {}, NoName)

EvalShouldPrune ==
    \E name \in AllNames, state_id \in MgrCallIds :
        /\ history = <<>>
        /\ EvalBudget
        /\ StrategyShouldPrune(name, state_id, EmptyMap)

NextEval ==
    \/ MgrAddState \/ EvalAddEdge \/ MgrPruneBranch
    \/ EvalRegister \/ EvalEvaluate \/ EvalPruneIfNeeded \/ EvalShouldPrune
    \/ Enable \/ Disable

SpecEval == InitEval /\ [][NextEval]_vars

(***************************************************************************)
(* A PruningManager with hooks, its history cleared now and then, and the  *)
(* gate switched off and on.                                               *)
(***************************************************************************)
HistMaxEdges == 1
HistMaxEvals == 2
HistMaxHistory == 2
MaxHooks == 2

HookIds == {"h1", "h2"}

HistAddEdge ==
    \E from_state, to_state \in 0..(MgrMaxNodes - 1) :
        /\ next_edge_id < HistMaxEdges
        /\ AddEdge(from_state, to_state, 1, TRUE, "", EmptyDict)
        /\ UNCHANGED <<mgrVars, agentVars>>

HistAddHook ==
    \E hook \in HookIds :
        /\ Len(hooks) < MaxHooks
        /\ AddHook(hook)

HistEvaluate ==
    \E state_id \in MgrCallIds :
        /\ Len(history) < HistMaxHistory
        /\ stats["DeadEnd"].evaluations < HistMaxEvals
        /\ Evaluate(state_id, {}, NoName)

\* One registration: a second one would hand the manager a new strategy
\* object with counters at zero.
HistRegister ==
    /\ strategies = {}
    /\ RegisterStrategy("DeadEnd", FALSE)
    /\ UNCHANGED graphVars

NextHist ==
    \/ MgrAddState \/ HistAddEdge \/ HistRegister \/ HistAddHook
    \/ HistEvaluate \/ ClearHistory \/ Enable \/ Disable

SpecHist == Init /\ [][NextHist]_vars

(***************************************************************************)
(* VoteDistribution and UncertaintyEstimator.  A float is the fraction     *)
(* [num, den] it stands for; math.log2 is taken from a table in            *)
(* thousandths.                                                            *)
(***************************************************************************)
Frac(n, d) == [num |-> n, den |-> d]

FracZero == Frac(0, 1)

FracEq(a, b) == a.num * b.den = b.num * a.den

FracLeq(a, b) == a.num * b.den <= b.num * a.den

\* math.log2 of 1 to 6, times 1000.
Log2Milli == <<0, 1000, 1585, 2000, 2322, 2585>>

\* dict.get(action, 0) on the candidates.
CandidatesGet(cands, action) ==
    IF \E i \in 1..Len(cands) : cands[i].action = action
    THEN cands[CHOOSE i \in 1..Len(cands) : cands[i].action = action].count
    ELSE 0

\* add_vote that starts an action's count anew unless the action is the one
\* that entered the dict last.
AddVoteToLastOnly(d, action) ==
    [candidates |->
        IF \E i \in 1..Len(d.candidates) : d.candidates[i].action = action
        THEN [i \in 1..Len(d.candidates) |->
                 IF d.candidates[i].action = action
                 THEN [d.candidates[i] EXCEPT
                          !.count = IF i = Len(d.candidates)
                                    THEN @ + 1 ELSE 1]
                 ELSE d.candidates[i]]
        ELSE Append(d.candidates, [action |-> action, count |-> 1]),
     total_votes |-> d.total_votes + 1]

\* VoteDistribution.add_vote: a known action keeps its place in the dict, a
\* new one goes to the end.
AddVoteTo(d, action) ==
    [candidates |->
        IF \E i \in 1..Len(d.candidates) : d.candidates[i].action = action
        THEN [i \in 1..Len(d.candidates) |->
                 IF d.candidates[i].action = action
                 THEN [d.candidates[i] EXCEPT !.count = @ + 1]
                 ELSE d.candidates[i]]
        ELSE Append(d.candidates, [action |-> action, count |-> 1]),
     total_votes |-> d.total_votes + 1]

EmptyVotes == [candidates |-> <<>>, total_votes |-> 0]

\* The loop of generate_votes over the samples drawn.
RECURSIVE Tally(_, _)
Tally(d, samples) ==
    IF samples = <<>> THEN d
    ELSE Tally(AddVoteTo(d, Head(samples)), Tail(samples))

RECURSIVE SumCounts(_)
SumCounts(cands) ==
    IF cands = <<>> THEN 0 ELSE Head(cands).count + SumCounts(Tail(cands))

\* VoteDistribution.get_most_common: max() keeps the first of equal counts.
GetMostCommon(d) ==
    IF d.candidates = <<>> THEN [action |-> "", count |-> 0]
    ELSE d.candidates[CHOOSE i \in 1..Len(d.candidates) :
             /\ \A j \in 1..Len(d.candidates) :
                    d.candidates[j].count <= d.candidates[i].count
             /\ \A j \in 1..(i - 1) :
                    d.candidates[j].count < d.candidates[i].count]

\* get_confidence without the test for an empty distribution.
GetConfidenceUnguarded(d) == Frac(GetMostCommon(d).count, d.total_votes)

\* VoteDistribution.get_confidence
GetConfidence(d) ==
    IF d.total_votes = 0 THEN FracZero
    ELSE Frac(GetMostCommon(d).count, d.total_votes)

\* The sum of -p * log2(p) over the candidates, in thousandths times
\* total_votes: p is count / total_votes.
RECURSIVE EntropySum(_, _)
EntropySum(cands, total) ==
    IF cands = <<>> THEN 0
    ELSE Head(cands).count * (Log2Milli[total] - Log2Milli[Head(cands).count])
         + EntropySum(Tail(cands), total)

\* UncertaintyEstimator.compute_entropy
ComputeEntropy(d) ==
    IF d.total_votes = 0 THEN FracZero
    ELSE Frac(EntropySum(d.candidates, d.total_votes), d.total_votes * 1000)

RECURSIVE SquaredDeviations(_, _, _)
SquaredDeviations(cands, k, s) ==
    IF cands = <<>> THEN 0
    ELSE (k * Head(cands).count - s) * (k * Head(cands).count - s)
         + SquaredDeviations(Tail(cands), k, s)

\* UncertaintyEstimator.compute_variance: with k candidates and the counts
\* summing to s, sum((x - s/k)^2) / k is sum((k*x - s)^2) / k^3.
ComputeVariance(d) ==
    IF d.total_votes = 0 \/ Len(d.candidates) <= 1 THEN FracZero
    ELSE LET k == Len(d.candidates)
         IN  Frac(SquaredDeviations(d.candidates, k, SumCounts(d.candidates)),
                  k * k * k)

\* The list individual_votes: each action as often as it was voted.
RECURSIVE IndividualVotes(_)
IndividualVotes(cands) ==
    IF cands = <<>> THEN <<>>
    ELSE [i \in 1..Head(cands).count |-> Head(cands).action]
         \o IndividualVotes(Tail(cands))

\* UncertaintyEstimator.compute_pairwise_disagreement
ComputePairwiseDisagreement(d) ==
    IF d.total_votes <= 1 \/ Len(d.candidates) <= 1 THEN FracZero
    ELSE LET iv == IndividualVotes(d.candidates)
             pairs == {p \in (1..Len(iv)) \X (1..Len(iv)) : p[1] < p[2]}
             disagreeing == {p \in pairs : iv[p[1]] # iv[p[2]]}
         IN  IF pairs = {} THEN FracZero
             ELSE Frac(Cardinality(disagreeing), Cardinality(pairs))

\* normalized_entropy of get_uncertainty_stats: the entropy over log2 of the
\* number of candidates, or over 1.0 with one candidate or none.
NormalizedEntropy(d) ==
    LET entropy == ComputeEntropy(d)
        num_candidates == Len(d.candidates)
        max_entropy == IF num_candidates > 1
                       THEN Frac(Log2Milli[num_candidates], 1000)
                       ELSE Frac(1, 1)
    IN  IF max_entropy.num > 0
        THEN Frac(entropy.num * max_entropy.den,
                  entropy.den * max_entropy.num)
        ELSE FracZero

\* UncertaintyEstimator.get_uncertainty_stats
GetUncertaintyStats(d) ==
    [entropy |-> ComputeEntropy(d),
     normalized_entropy |-> NormalizedEntropy(d),
     variance |-> ComputeVariance(d),
     pairwise_disagreement |-> ComputePairwiseDisagreement(d),
     confidence |-> GetConfidence(d),
     uncertainty |-> Frac(GetConfidence(d).den - GetConfidence(d).num,
                          GetConfidence(d).den),
     num_candidates |-> Len(d.candidates),
     total_votes |-> d.total_votes]

\* int() of a float: towards zero.
Truncate(f) ==
    IF f.num >= 0 THEN f.num \div f.den ELSE -((-f.num) \div f.den)

\* round() of a float: the nearest integer, the even one of two at the same
\* distance.
Round(f) ==
    LET q == f.num \div f.den
        r == f.num % f.den
    IN  IF 2 * r < f.den THEN q
        ELSE IF 2 * r > f.den THEN q + 1
        ELSE IF q % 2 = 0 THEN q ELSE q + 1

\* UncertaintyEstimator.get_compute_budget: stats.get("normalized_entropy",
\* 0.5), the linear interpolation, int(round(budget)).
GetComputeBudget(ustats, min_samples, max_samples) ==
    LET uncertainty == IF "normalized_entropy" \in DOMAIN ustats
                       THEN ustats.normalized_entropy ELSE Frac(1, 2)
        budget == Frac(min_samples * uncertainty.den
                       + (max_samples - min_samples) * uncertainty.num,
                       uncertainty.den)
    IN  Round(budget)

\* str.lower() on the words of the observations used.
Lower(word) ==
    CASE word = "BUTTON" -> "button"
      [] word = "Form" -> "form"
      [] OTHER -> word

\* `word in observation.lower()`, the observation being a list of words.
InLower(word, observation) ==
    \E i \in 1..Len(observation) : Lower(observation[i]) = word

\* The actions _simulate_reasoning_sample can return: any of the
\* candidate_actions given (each has a positive weight), or any of the list
\* the words of the observation select.
SimulateReasoningSample(observation, candidate_actions) ==
    IF candidate_actions # <<>>
    THEN {candidate_actions[i] : i \in 1..Len(candidate_actions)}
    ELSE IF InLower("button", observation)
    THEN {"click_button", "fill_form", "scroll_down", "go_back"}
    ELSE IF InLower("form", observation)
    THEN {"fill_form", "submit_form", "clear_field", "go_back"}
    ELSE IF InLower("search", observation)
    THEN {"type_query", "press_enter", "clear_search", "go_back"}
    ELSE {"click", "type", "scroll", "wait", "go_back"}

\* The sample lists a call with n_samples can draw: range(n_samples) is
\* empty for n_samples <= 0.
SampleLists(observation, n_samples, candidate_actions) ==
    IF n_samples <= 0 THEN {<<>>}
    ELSE [1..n_samples ->
             SimulateReasoningSample(observation, candidate_actions)]

\* UncertaintyEstimator.generate_votes, with the samples its random draws
\* gave; the distribution it returns becomes the one held.
GenerateVotes(observation, n_samples, candidate_actions, samples) ==
    /\ samples \in SampleLists(observation, n_samples, candidate_actions)
    /\ \E d \in {Tally(EmptyVotes, samples)} :
         /\ candidates' = d.candidates
         /\ total_votes' = d.total_votes
         /\ last' = Call("generate_votes",
                         <<observation, n_samples, candidate_actions,
                           samples>>,
                         d, NoErr)
    /\ UNCHANGED <<graphVars, mgrVars, criteria, legacy_items,
                   recVars, loopVars>>

\* VoteDistribution.add_vote on the distribution held.
AddVote(action) ==
    /\ \E d \in {AddVoteTo([candidates |-> candidates,
                           total_votes |-> total_votes], action)} :
         /\ candidates' = d.candidates
         /\ total_votes' = d.total_votes
    /\ last' = Call("add_vote", <<action>>, NoneId, NoErr)
    /\ UNCHANGED <<graphVars, mgrVars, criteria, legacy_items,
                   recVars, loopVars>>

\* get_uncertainty_stats on the distribution held.
DoGetUncertaintyStats ==
    /\ last' = Call("get_uncertainty_stats", <<>>,
                    GetUncertaintyStats([candidates |-> candidates,
                                         total_votes |-> total_votes]),
                    NoErr)
    /\ UNCHANGED <<graphVars, mgrVars, agentVars>>

\* get_compute_budget on a stats dict.
DoGetComputeBudget(ustats, min_samples, max_samples) ==
    /\ last' = Call("get_compute_budget",
                    <<ustats, min_samples, max_samples>>,
                    GetComputeBudget(ustats, min_samples, max_samples),
                    NoErr)
    /\ UNCHANGED <<graphVars, mgrVars, agentVars>>

(***************************************************************************)
(* An estimator asked for votes on a few observations, with and without    *)
(* candidate actions, its distribution voted on further, and budgets       *)
(* asked for the statistics of the distribution and, before the first     *)
(* vote, for statistics with a normalized entropy on a grid of twentieths  *)
(* and for an empty dict.                                                  *)
(***************************************************************************)
MaxSamples == 3
MaxVotes == 4
GridDen == 20
GridMax == 24

VoteObservations ==
    { <<"a", "BUTTON">>, <<"Form">>, <<"search">>, <<"page">> }

VoteCandidateActions == { <<>>, <<"click", "type">> }

VoteActions == {"click", "type", "go_back"}

BudgetStats ==
    {GetUncertaintyStats([candidates |-> candidates,
                          total_votes |-> total_votes])}
    \cup IF total_votes = 0
         THEN {[normalized_entropy |-> Frac(k, GridDen)] : k \in 0..GridMax}
              \cup {EmptyMap}
         ELSE {}

BudgetRanges == { <<5, 15>>, <<3, 20>>, <<0, 1>>, <<1, 2>>, <<4, 4>>,
                  <<6, 2>> }

VoteGenerate ==
    \E observation \in VoteObservations, n_samples \in -1..MaxSamples,
       candidate_actions \in VoteCandidateActions :
        \E samples \in SampleLists(observation, n_samples,
                                   candidate_actions) :
            GenerateVotes(observation, n_samples, candidate_actions, samples)

VoteAdd ==
    \E action \in VoteActions :
        /\ total_votes < MaxVotes
        /\ AddVote(action)

VoteBudget ==
    \E ustats \in BudgetStats, range \in BudgetRanges :
        DoGetComputeBudget(ustats, range[1], range[2])

NextVotes == VoteGenerate \/ VoteAdd \/ DoGetUncertaintyStats \/ VoteBudget

SpecVotes == Init /\ [][NextVotes]_vars

(***************************************************************************)
(* ChecklistCriterion and Checklist.  A weight is given in tenths; a       *)
(* check_function is named, None included; step_data is a dict.            *)
(***************************************************************************)
NoFunction == "None"

WeightDen == 10

\* metadata.get(key, False) on the metadata of a step.
MetadataGet(metadata, key) ==
    IF key \in DOMAIN metadata THEN metadata[key] ELSE FALSE

\* interactive_patterns of _check_interactive_element
InteractivePatterns == {"click", "button", "link", "input", "submit", "href"}


\* The call check_function(step_data) of two functions:
\*   value_over_5 = lambda d: d.get("value", 0) > 5
\*   url_done     = lambda d: d["url"] == "done"   (KeyError without "url")
CallCheckFunction(check_function, step_data) ==
    IF check_function = "domain_match"
    THEN [raised |-> FALSE,
          result |-> MetadataGet(step_data.metadata, "domain_match")]
    ELSE IF check_function = "interactive_element"
    THEN [raised |-> FALSE,
          result |-> \E pattern \in InteractivePatterns :
                         InLower(pattern, step_data.observation)]
    ELSE IF check_function = "target_page"
    THEN [raised |-> FALSE,
          result |-> \/ MetadataGet(step_data.metadata, "target_reached")
                     \/ MetadataGet(step_data.metadata, "success")]
    ELSE IF check_function = "value_over_5"
    THEN [raised |-> FALSE,
          result |-> IF "value" \in DOMAIN step_data
                     THEN step_data.value > 5 ELSE FALSE]
    ELSE IF "url" \in DOMAIN step_data
    THEN [raised |-> FALSE, result |-> step_data.url = "done"]
    ELSE [raised |-> TRUE, result |-> FALSE]

\* evaluate that asks the check function again for a satisfied criterion.
CriterionEvaluateAgain(c, step_data) ==
    IF c.check_function = NoFunction
    THEN [criterion |-> [c EXCEPT !.is_satisfied = FALSE], ret |-> FALSE]
    ELSE LET r == CallCheckFunction(c.check_function, step_data)
         IN  [criterion |-> [c EXCEPT !.is_satisfied =
                                          ~r.raised /\ r.result],
              ret |-> ~r.raised /\ r.result]

\* ChecklistCriterion.evaluate: the criterion afterwards and the value
\* returned.
CriterionEvaluate(c, step_data) ==
    IF c.is_satisfied THEN [criterion |-> c, ret |-> TRUE]
    ELSE IF c.check_function = NoFunction
    THEN [criterion |-> c, ret |-> FALSE]
    ELSE LET r == CallCheckFunction(c.check_function, step_data)
         IN  IF r.raised THEN [criterion |-> c, ret |-> FALSE]
             ELSE [criterion |-> [c EXCEPT !.is_satisfied = r.result],
                   ret |-> r.result]

RECURSIVE SumWeights(_)
SumWeights(cs) ==
    IF cs = <<>> THEN 0 ELSE Head(cs).weight + SumWeights(Tail(cs))

\* Checklist.get_score
GetScore(cs) ==
    IF cs = <<>> THEN FracZero
    ELSE IF SumWeights(cs) = 0 THEN FracZero
    ELSE Frac(SumWeights(SelectSeq(cs, LAMBDA c : c.is_satisfied)),
              SumWeights(cs))

\* is_complete that looks at the criteria alone.
IsCompleteCriteriaOnly(cs, its) ==
    \A i \in 1..Len(cs) : cs[i].is_satisfied

\* Checklist.is_complete: without criteria the legacy items decide.
IsComplete(cs, its) ==
    IF cs = <<>>
    THEN \A id \in DOMAIN its : its[id].status = "completed"
    ELSE \A i \in 1..Len(cs) : cs[i].is_satisfied

\* The descriptions of the criteria at the indices given, in list order.
RECURSIVE Descriptions(_, _, _)
Descriptions(cs, idx, i) ==
    IF i > Len(cs) THEN <<>>
    ELSE (IF i \in idx THEN <<cs[i].description>> ELSE <<>>)
         \o Descriptions(cs, idx, i + 1)

\* ChecklistCriterion(description, weight, check_function), appended by
\* add_criterion; __post_init__ rejects a weight outside [0.0, 1.0].
AddCriterion(description, weight, check_function) ==
    /\ IF weight < 0 \/ weight > WeightDen
       THEN /\ last' = Call("add_criterion",
                            <<description, weight, check_function>>,
                            NoneId, "Weight must be between 0.0 and 1.0")
            /\ UNCHANGED criteria
       ELSE /\ criteria' = Append(criteria,
                               [description |-> description,
                                weight |-> weight,
                                check_function |-> check_function,
                                is_satisfied |-> FALSE])
            /\ last' = Call("add_criterion",
                            <<description, weight, check_function>>,
                            Len(criteria) + 1, NoErr)
    /\ UNCHANGED <<graphVars, mgrVars, candidates, total_votes, legacy_items,
                   recVars, loopVars>>

\* Checklist.add_item
AddItem(item_id, depends_on) ==
    /\ legacy_items' =
           [id \in DOMAIN legacy_items \cup {item_id} |->
               IF id = item_id
               THEN [status |-> "pending", depends_on |-> depends_on]
               ELSE legacy_items[id]]
    /\ last' = Call("add_item", <<item_id, depends_on>>, item_id, NoErr)
    /\ UNCHANGED <<graphVars, mgrVars, candidates, total_votes, criteria,
                   recVars, loopVars>>

\* Checklist.update_status
UpdateStatus(item_id, status) ==
    /\ IF item_id \notin DOMAIN legacy_items
       THEN /\ last' = Call("update_status", <<item_id, status>>, FALSE,
                            NoErr)
            /\ UNCHANGED legacy_items
       ELSE IF /\ status = "completed"
               /\ \E dep_id \in legacy_items[item_id].depends_on :
                      /\ dep_id \in DOMAIN legacy_items
                      /\ legacy_items[dep_id].status # "completed"
       THEN /\ last' = Call("update_status", <<item_id, status>>, FALSE,
                            NoErr)
            /\ UNCHANGED legacy_items
       ELSE /\ legacy_items' =
                   [legacy_items EXCEPT ![item_id].status = status]
            /\ last' = Call("update_status", <<item_id, status>>, TRUE,
                            NoErr)
    /\ UNCHANGED <<graphVars, mgrVars, candidates, total_votes, criteria,
                   recVars, loopVars>>

\* ChecklistCriterion.evaluate on the criterion at index i of the list.
CriterionEvaluateAt(i, step_data) ==
    /\ \E r \in {CriterionEvaluate(criteria[i], step_data)} :
         /\ criteria' = [criteria EXCEPT ![i] = r.criterion]
         /\ last' = Call("criterion_evaluate", <<step_data, i>>, r.ret,
                         NoErr)
    /\ UNCHANGED <<graphVars, mgrVars, candidates, total_votes, legacy_items,
                   recVars, loopVars>>

\* Checklist.evaluate: every criterion is evaluated in list order, then
\* the report is made of the criteria as they are afterwards.
ChecklistEvaluate(step_data) ==
    /\ \E after \in {[i \in 1..Len(criteria) |->
                        CriterionEvaluate(criteria[i], step_data)]} :
         /\ criteria' = [i \in 1..Len(criteria) |-> after[i].criterion]
         /\ last' =
              Call("checklist_evaluate", <<step_data>>,
                   [newly_satisfied |->
                        Descriptions(criteria,
                            {i \in 1..Len(criteria) :
                                after[i].ret /\ ~criteria[i].is_satisfied},
                            1),
                    all_satisfied |->
                        Descriptions(criteria,
                            {i \in 1..Len(criteria) :
                                after[i].criterion.is_satisfied},
                            1),
                    score |-> GetScore(criteria'),
                    progress |-> Frac(GetScore(criteria').num * 100,
                                      GetScore(criteria').den),
                    is_complete |-> IsComplete(criteria', legacy_items)],
                   NoErr)
    /\ UNCHANGED <<graphVars, mgrVars, candidates, total_votes, legacy_items,
                   recVars, loopVars>>

\* Checklist.reset
ChecklistReset ==
    /\ legacy_items' = [id \in DOMAIN legacy_items |->
                           [legacy_items[id] EXCEPT !.status = "pending"]]
    /\ criteria' = [i \in 1..Len(criteria) |->
                       [criteria[i] EXCEPT !.is_satisfied = FALSE]]
    /\ last' = Call("checklist_reset", <<>>, NoneId, NoErr)
    /\ UNCHANGED <<graphVars, mgrVars, candidates, total_votes,
                   recVars, loopVars>>

(***************************************************************************)
(* A checklist that gets criteria and legacy items, is evaluated on a few  *)
(* step data, as a whole or one criterion, and is reset now and then.      *)
(***************************************************************************)
MaxCriteria == 2

CriterionDescriptions == {"reach page", "submit"}

CriterionWeights == {0, 10, 15}

CheckFunctions == {NoFunction, "value_over_5", "url_done"}

ItemIds == {"i1", "i2"}

ItemDependencies == { {}, {"i1"} }

ItemStatuses == {"completed", "failed"}

StepDatas ==
    { EmptyMap, [value |-> 10], [url |-> "done"],
      [url |-> "other", value |-> 10] }

ClAddCriterion ==
    \E description \in CriterionDescriptions, weight \in CriterionWeights,
       check_function \in CheckFunctions :
        /\ Len(criteria) < MaxCriteria
        /\ AddCriterion(description, weight, check_function)

ClAddItem ==
    \E item_id \in ItemIds, depends_on \in ItemDependencies :
        /\ item_id \notin DOMAIN legacy_items
        /\ item_id \notin depends_on
        /\ AddItem(item_id, depends_on)

ClUpdateStatus ==
    \E item_id \in ItemIds, status \in ItemStatuses :
        UpdateStatus(item_id, status)

ClCriterionEvaluate ==
    \E i \in 1..Len(criteria), step_data \in StepDatas :
        CriterionEvaluateAt(i, step_data)

ClEvaluate == \E step_data \in StepDatas : ChecklistEvaluate(step_data)

NextChecklist ==
    \/ ClAddCriterion \/ ClAddItem \/ ClUpdateStatus
    \/ ClCriterionEvaluate \/ ClEvaluate \/ ChecklistReset

SpecChecklist == Init /\ [][NextChecklist]_vars

(***************************************************************************)
(* RecoveryManager (src/src/recovery.py).  A context is the dict of the    *)
(* caller; a RecoveryAction is a record whose target_step is NoneId and    *)
(* whose alternative_action is "None" where the code has None.  The        *)
(* reasons are kept without the numbers the code formats into them.        *)
(***************************************************************************)
\* context.get(key, default)
ContextGet(ctx, key, default) ==
    IF key \in DOMAIN ctx THEN ctx[key] ELSE default

\* context[key] = value
ContextSet(ctx, key, value) ==
    [k \in DOMAIN ctx \cup {key} |-> IF k = key THEN value ELSE ctx[k]]

RecoveryAction(strategy, target_step, reason) ==
    [strategy |-> strategy, target_step |-> target_step,
     alternative_action |-> "None", reason |-> reason]

\* uncertainty > 0.8
HighUncertainty(uncertainty) == uncertainty.num * 5 > 4 * uncertainty.den

\* assess_failure that goes on retrying at retry_count = max_retries.
AssessFailureOneMore(ctx, retries) ==
    LET current == ContextGet(ctx, "current_step", 0)
        count == ContextGet(ctx, "retry_count", 0)
        uncertainty == ContextGet(ctx, "uncertainty", FracZero)
    IN  IF count <= retries
        THEN RecoveryAction("retry", NoneId, "Retry attempt")
        ELSE IF HighUncertainty(uncertainty)
        THEN RecoveryAction("human_in_loop", NoneId,
                            "High uncertainty - need human guidance")
        ELSE IF current > 0
        THEN RecoveryAction("backtrack", current - 1,
                            "Max retries exceeded - backtracking")
        ELSE RecoveryAction("reset", NoneId, "Unable to recover - resetting")

\* RecoveryManager.assess_failure; the error is not looked at.
AssessFailure(ctx, retries) ==
    LET current == ContextGet(ctx, "current_step", 0)
        count == ContextGet(ctx, "retry_count", 0)
        uncertainty == ContextGet(ctx, "uncertainty", FracZero)
    IN  IF count < retries
        THEN RecoveryAction("retry", NoneId, "Retry attempt")
        ELSE IF HighUncertainty(uncertainty)
        THEN RecoveryAction("human_in_loop", NoneId,
                            "High uncertainty - need human guidance")
        ELSE IF current > 0
        THEN RecoveryAction("backtrack", current - 1,
                            "Max retries exceeded - backtracking")
        ELSE RecoveryAction("reset", NoneId, "Unable to recover - resetting")

\* RecoveryManager.execute_recovery with the default handlers: the context
\* the handler of the strategy returns.
ExecuteRecovery(action, ctx) ==
    CASE action.strategy = "retry" ->
             ContextSet(ctx, "retry_count",
                        ContextGet(ctx, "retry_count", 0) + 1)
      [] action.strategy = "backtrack" ->
             IF action.target_step # NoneId
             THEN ContextSet(ContextSet(ctx, "current_step",
                                        action.target_step),
                             "retry_count", 0)
             ELSE ctx
      [] action.strategy = "branch" ->
             ContextSet(ContextSet(ctx, "alternative_action",
                                   action.alternative_action),
                        "retry_count", 0)
      [] action.strategy = "human_in_loop" ->
             ContextSet(ctx, "awaiting_human_input", TRUE)
      [] action.strategy = "reset" ->
             ContextSet(ctx, "reset_requested", TRUE)
      [] OTHER -> ctx

\* assess_failure called on the context held.
DoAssessFailure ==
    /\ last' = Call("assess_failure", <<context>>,
                    AssessFailure(context, max_retries), NoErr)
    /\ UNCHANGED <<graphVars, mgrVars, agentVars>>

\* execute_recovery called with the action assess_failure has just returned.
DoExecuteRecovery ==
    /\ last.op = "assess_failure"
    /\ context' = ExecuteRecovery(last.ret, context)
    /\ last' = Call("execute_recovery", <<last.ret, context>>, context',
                    NoErr)
    /\ UNCHANGED <<graphVars, mgrVars, candidates, total_votes, criteria,
                   legacy_items, max_retries, attempt_history, loopVars>>

\* record_attempt
RecordAttempt(action, success) ==
    [action |-> action, success |-> success]

(***************************************************************************)
(* A RecoveryManager whose caller assesses and executes over and over on   *)
(* one context that starts without retries.                                *)
(***************************************************************************)
RecMaxRetries == 3
RecMaxStep == 2

\* 0.5, 0.8 and 0.9
RecUncertainties == {Frac(1, 2), Frac(4, 5), Frac(9, 10)}

\* The contexts at the start: retry_count is 0 or left out.
RecContexts ==
    {[current_step |-> c, retry_count |-> 0, uncertainty |-> u] :
         c \in 0..RecMaxStep, u \in RecUncertainties}
    \cup {[current_step |-> c, uncertainty |-> u] :
              c \in 0..RecMaxStep, u \in RecUncertainties}

InitRecovery ==
    /\ GraphInit
    /\ ManagerInit
    /\ StrategiesInit
    /\ candidates = <<>>
    /\ total_votes = 0
    /\ criteria = <<>>
    /\ legacy_items = EmptyMap
    /\ max_retries \in 0..RecMaxRetries
    /\ context \in RecContexts
    /\ attempt_history = <<>>
    /\ config = DefaultConfig
    /\ current_step = 0
    /\ trajectory = <<>>
    /\ steps_without_progress = 0
    /\ retry_count = 0
    /\ last_progress = FracZero
    /\ task_type = NoTaskType
    /\ pc = "idle"
    /\ step = EmptyMap
    /\ prunable = <<>>
    /\ prune_base = 0
    /\ run_result = EmptyMap
    /\ last = Call("init", <<>>, NoneId, NoErr)

NextRecovery == DoAssessFailure \/ DoExecuteRecovery

SpecRecovery == InitRecovery /\ [][NextRecovery]_vars

(***************************************************************************)
(* AdaptiveWebAgent (src/src/agent.py).  run_task is followed through its  *)
(* positions: "idle" before the call, "start" after initialize(), "loop"   *)
(* at the head of the while loop, "edge" and "prune" inside execute_step   *)
(* (after add_state, and in the loop of _prune_trajectory), "returned"     *)
(* after the return.  An observation is the list of its words; a Step is   *)
(* kept with its index, action, observation, uncertainty and the success   *)
(* entry of its metadata.  The clock is not modelled.                      *)
(***************************************************************************)
TaskDescription == <<"task">>

\* The text of an observation, which is what the graph hashes.
RECURSIVE Text(_)
Text(words) ==
    IF words = <<>> THEN ""
    ELSE IF Len(words) = 1 THEN words[1]
    ELSE words[1] \o " " \o Text(Tail(words))

FracLess(a, b) == a.num * b.den < b.num * a.den

\* max(self._trajectory_graph.nodes.keys())
MaxKey(S) == CHOOSE x \in S : \A y \in S : y <= x

\* The loop condition of run_task that lets current_step reach max_steps.
LoopConditionInclusive(current, limit) == current <= limit

\* while self.current_step < self.config.max_steps
LoopCondition(current, limit) == current < limit

\* _setup_navigation_checklist: the weights in tenths.
NavigationCriteria ==
    << [description |-> "Reached target domain", weight |-> 3,
        check_function |-> "domain_match", is_satisfied |-> FALSE],
       [description |-> "Found interactive element", weight |-> 3,
        check_function |-> "interactive_element", is_satisfied |-> FALSE],
       [description |-> "Successfully navigated to target page",
        weight |-> 4, check_function |-> "target_page",
        is_satisfied |-> FALSE] >>

\* The observation the estimator is asked about: the last one of the
\* trajectory, or the task description when there is none.
CurrentObservation ==
    IF trajectory # <<>> /\ trajectory[Len(trajectory)].observation # <<>>
    THEN trajectory[Len(trajectory)].observation
    ELSE TaskDescription

\* _estimate_uncertainty_and_budget: the values stats["uncertainty"] can
\* take over the samples generate_votes may draw.
EstimateUncertainty(observation, n_samples) ==
    {Frac(GetConfidence(Tally(EmptyVotes, samples)).den
              - GetConfidence(Tally(EmptyVotes, samples)).num,
          GetConfidence(Tally(EmptyVotes, samples)).den) :
         samples \in SampleLists(observation, n_samples, <<>>)}

\* The candidate list of _generate_candidates before it is shuffled.
GenerateCandidates(observation) ==
    IF InLower("search", observation)
    THEN <<"type_query", "press_enter", "click_result", "scroll_down",
           "go_back", "wait">>
    ELSE IF InLower("form", observation)
    THEN <<"fill_field", "submit_form", "clear_field", "validate_input",
           "scroll_down", "go_back">>
    ELSE IF InLower("button", observation) \/ InLower("click", observation)
    THEN <<"click_button", "fill_form", "scroll_down", "wait", "go_back",
           "take_screenshot">>
    ELSE <<"navigate", "click", "type", "scroll", "wait", "go_back",
           "take_screenshot">>

\* The actions _select_best_action can return: the shuffle can bring any
\* candidate to the front and the vote can go to any candidate.  The model
\* follows the first MaxCandidates of the list.
MaxCandidates == 1

SelectBestAction(observation) ==
    {GenerateCandidates(observation)[i] :
         i \in 1..MaxCandidates}

\* What the action executor does with an action: it returns an observation
\* and a success flag, or it raises.
ExecutorOutcomes ==
    { [raised |-> FALSE, observation |-> <<"nothing">>, success |-> FALSE],
      [raised |-> FALSE, observation |-> <<"button">>, success |-> TRUE],
      [raised |-> TRUE, observation |-> <<"timeout">>, success |-> FALSE] }

\* _execute_action: the Step made of the outcome.
ExecuteAction(action, outcome, uncertainty) ==
    [index |-> current_step, action |-> action,
     observation |-> IF outcome.raised
                     THEN <<"Error:">> \o outcome.observation
                     ELSE outcome.observation,
     success |-> ~outcome.raised /\ outcome.success,
     uncertainty |-> uncertainty]

\* `uncertainty or 0.5`
OrHalf(uncertainty) ==
    IF uncertainty.num = 0 THEN Frac(1, 2) ELSE uncertainty

\* success_history of the PruningContext _prune_trajectory builds: one
\* entry per step index, the later step winning.
SuccessHistory(steps) ==
    [i \in {steps[k].index : k \in 1..Len(steps)} |->
        LET k == CHOOSE k \in 1..Len(steps) :
                     /\ steps[k].index = i
                     /\ \A j \in (k + 1)..Len(steps) : steps[j].index # i
        IN  steps[k].success]

\* initialize(): a new estimator, graph, pruning manager with the default
\* composite registered, and recovery manager.
Initialize ==
    /\ candidates' = <<>>
    /\ total_votes' = 0
    /\ nodes' = EmptyMap
    /\ edges' = EmptyMap
    /\ adjacency' = EmptyMap
    /\ reverse_adjacency' = EmptyMap
    /\ observation_to_state' = EmptyMap
    /\ root_state_id' = NoneId
    /\ next_node_id' = 0
    /\ next_edge_id' = 0
    /\ strategies' = {CompositeName}
    /\ default_strategy' = CompositeName
    /\ history' = <<>>
    /\ pruned_states' = {}
    /\ enabled' = TRUE
    /\ hooks' = <<>>
    /\ hook_calls' = <<>>
    /\ stats' = [n \in LeafNames \cup {CompositeName} |-> NewStats]
    /\ cache_valid' = FALSE
    /\ cycle_cache' = <<>>
    /\ observation_hashes' = EmptyMap
    /\ propagate_failures' = TRUE
    /\ epsilon' = DefaultEpsilon
    /\ combination_mode' = "priority"
    /\ composite_strategies' = <<"CycleElimination", "DeadEnd", "Redundancy">>
    /\ max_retries' = config.recovery_max_retries
    /\ attempt_history' = <<>>

\* set_task_type on an agent that was not initialized: it initializes and
\* makes the checklist of the task type.
SetTaskType(name) ==
    /\ pc = "idle"
    /\ task_type = NoTaskType
    /\ Initialize
    /\ task_type' = name
    /\ criteria' = NavigationCriteria
    /\ last' = Call("set_task_type", <<name>>, NoneId, NoErr)
    /\ UNCHANGED <<legacy_items, context, config, current_step, trajectory,
                   steps_without_progress, retry_count, last_progress, pc,
                   step, prunable, prune_base, run_result>>

\* run_task up to the add_state of the initial state.
RunTask ==
    /\ pc = "idle"
    /\ Initialize
    /\ current_step' = 0
    /\ run_result' = [success |-> FALSE, steps_taken |-> 0]
    /\ pc' = "start"
    /\ last' = Call("run_task", <<TaskDescription>>, NoneId, NoErr)
    /\ UNCHANGED <<criteria, legacy_items, context, config, trajectory,
                   steps_without_progress, retry_count, last_progress,
                   task_type, step, prunable, prune_base>>

\* run_task: the initial state goes into the graph.
AddInitialState ==
    /\ pc = "start"
    /\ AddState(PyStr(Text(TaskDescription)), "start", EmptyDict,
                NoTimestamp)
    /\ pc' = "loop"
    /\ UNCHANGED <<mgrVars, candidates, total_votes, criteria, legacy_items,
                   recVars, config, current_step, trajectory,
                   steps_without_progress, retry_count, last_progress,
                   task_type, step, prunable, prune_base, run_result>>

\* The while loop of run_task goes into another iteration.
LoopContinues ==
    /\ LoopCondition(current_step, config.max_steps)
    /\ ~(task_type # NoTaskType /\ IsComplete(criteria, legacy_items))

\* execute_step from its beginning to the add_state of
\* _update_trajectory_graph: the uncertainty is estimated, an action is
\* selected and executed, and the observation goes into the graph.
ExecuteStep ==
    /\ pc = "loop"
    /\ LoopContinues
    /\ \E uncertainty \in EstimateUncertainty(CurrentObservation,
                                               config.min_samples),
          action \in SelectBestAction(
                        IF trajectory # <<>>
                        THEN trajectory[Len(trajectory)].observation
                        ELSE <<>>),
          outcome \in ExecutorOutcomes :
         \E made \in {ExecuteAction(action, outcome, uncertainty)} :
           /\ AddState(PyStr(Text(made.observation)), action, EmptyDict,
                       NoTimestamp)
           /\ step' = [made EXCEPT !.index = current_step]
                          @@ [prev_state_id |->
                                  IF current_step > 0 /\ DOMAIN nodes # {}
                                  THEN MaxKey(DOMAIN nodes) ELSE NoneId,
                              new_state_id |-> last'.ret]
    /\ pc' = "edge"
    /\ UNCHANGED <<mgrVars, candidates, total_votes, criteria, legacy_items,
                   recVars, config, current_step, trajectory,
                   steps_without_progress, retry_count, last_progress,
                   task_type, prunable, prune_base, run_result>>

\* _update_trajectory_graph after add_state: the edge from the previous
\* state, if there is one; then _prune_trajectory asks the graph for its
\* prunable branches.
UpdateTrajectoryGraph ==
    /\ pc = "edge"
    /\ IF step.prev_state_id # NoneId
       THEN AddEdge(step.prev_state_id, step.new_state_id,
                    Frac(OrHalf(step.uncertainty).den
                             - OrHalf(step.uncertainty).num,
                         OrHalf(step.uncertainty).den),
                    step.success, step.action, EmptyDict)
       ELSE /\ last' = Call("update_trajectory_graph", <<>>, NoneId, NoErr)
            /\ UNCHANGED graphVars
    /\ prunable' = KeysInOrder(GetPrunableBranches(nodes', edges',
                                                   adjacency'))
    /\ prune_base' = Len(history)
    /\ pc' = "prune"
    /\ UNCHANGED <<mgrVars, candidates, total_votes, criteria, legacy_items,
                   recVars, config, current_step, trajectory,
                   steps_without_progress, retry_count, last_progress,
                   task_type, step, run_result>>

\* How far the loop of _prune_trajectory has come: every prune_if_needed
\* of an enabled manager adds one decision to the history.
PruneIndex == Len(history) - prune_base

\* _prune_trajectory: prune_if_needed on the next prunable state.
PruneTrajectory ==
    /\ pc = "prune"
    /\ PruneIndex < Len(prunable)
    /\ PruneIfNeeded(prunable[PruneIndex + 1],
                     FailedOf(SuccessHistory(trajectory)), NoName)

\* The step data _evaluate_checklist hands to the checklist.
StepData(made) ==
    [action |-> made.action, observation |-> made.observation,
     step_index |-> made.index, metadata |-> [success |-> made.success],
     url |-> ""]

\* get_progress_percentage
GetProgressPercentage(cs) == Frac(100 * GetScore(cs).num, GetScore(cs).den)

\* check_stuck, on the agent as it is after the step.
CheckStuck(cs, steps, without_progress) ==
    /\ task_type # NoTaskType
    /\ FracLess(GetProgressPercentage(cs), config.stuck_threshold)
    /\ FracLess(config.uncertainty_threshold,
                IF steps # <<>> THEN OrHalf(steps[Len(steps)].uncertainty)
                ELSE Frac(1, 2))
    /\ without_progress >= 3

\* recover(): what it leaves of the agent, given the action the recovery
\* manager chose.  The context execute_recovery returns is not used.
Recover(action, a) ==
    CASE action.strategy = "backtrack" ->
             IF Len(a.trajectory) > 1
             THEN [a EXCEPT
                      !.trajectory = SubSeq(@, 1, Len(@) - 1),
                      !.current_step = Len(a.trajectory) - 1,
                      !.steps_without_progress = 0]
             ELSE a
      [] action.strategy = "retry" ->
             [a EXCEPT !.retry_count = @ + 1]
      [] action.strategy = "reset" ->
             [a EXCEPT !.trajectory = <<>>, !.current_step = 0,
                       !.steps_without_progress = 0, !.retry_count = 0]
      [] OTHER -> a

\* The rest of execute_step (the checklist is evaluated, the progress is
\* tracked, current_step grows) and the rest of the loop body of run_task:
\* the step joins the trajectory, steps_taken is set, and recovery runs if
\* the agent is stuck.
FinishStep ==
    /\ pc = "prune"
    /\ PruneIndex = Len(prunable)
    /\ \E made \in {[index |-> step.index, action |-> step.action,
                      observation |-> step.observation,
                      success |-> step.success,
                      uncertainty |-> step.uncertainty]} :
       \E cs \in {IF task_type = NoTaskType THEN criteria
                  ELSE [i \in 1..Len(criteria) |->
                           CriterionEvaluate(criteria[i],
                                             StepData(made)).criterion]} :
       \E progressed \in {/\ task_type # NoTaskType
                          /\ FracLess(last_progress,
                                      GetProgressPercentage(cs))} :
       \E a \in {[trajectory |-> Append(trajectory, made),
                   current_step |-> current_step + 1,
                   steps_without_progress |->
                       IF task_type = NoTaskType
                       THEN steps_without_progress
                       ELSE IF progressed THEN 0
                       ELSE steps_without_progress + 1,
                   retry_count |-> retry_count]} :
       \E stuck \in {CheckStuck(cs, a.trajectory,
                                a.steps_without_progress)} :
       \E action \in {AssessFailure(
                          [current_step |-> a.current_step,
                           retry_count |-> a.retry_count,
                           uncertainty |-> made.uncertainty],
                          max_retries)} :
       \E b \in {IF stuck THEN Recover(action, a) ELSE a} :
         /\ criteria' = cs
         /\ last_progress' = IF progressed THEN GetProgressPercentage(cs)
                             ELSE last_progress
         /\ trajectory' = b.trajectory
         /\ current_step' = b.current_step
         /\ steps_without_progress' = b.steps_without_progress
         /\ retry_count' = b.retry_count
         /\ run_result' = [run_result EXCEPT
                               !.steps_taken = a.current_step]
         /\ attempt_history' =
                IF stuck /\ action.strategy # "human_in_loop"
                THEN Append(attempt_history, RecordAttempt(action, TRUE))
                ELSE attempt_history
         /\ last' = Call("execute_step", <<made>>,
                         [state_id |-> step.new_state_id,
                          recovery |-> IF stuck THEN action.strategy
                                       ELSE "none"],
                         NoErr)
    /\ pc' = "loop"
    /\ UNCHANGED <<graphVars, mgrVars, candidates, total_votes, legacy_items,
                   max_retries, context, config, task_type, step, prunable,
                   prune_base>>

\* run_task leaves the loop and returns its result.
RunTaskReturns ==
    /\ pc = "loop"
    /\ ~LoopContinues
    /\ run_result' = [run_result EXCEPT
                          !.success =
                              /\ LoopCondition(current_step, config.max_steps)
                              /\ task_type # NoTaskType
                              /\ IsComplete(criteria, legacy_items)]
    /\ pc' = "returned"
    /\ last' = Call("run_task_returns", <<>>, run_result', NoErr)
    /\ UNCHANGED <<graphVars, mgrVars, candidates, total_votes, criteria,
                   legacy_items, recVars, config, current_step, trajectory,
                   steps_without_progress, retry_count, last_progress,
                   task_type, step, prunable, prune_base>>

(***************************************************************************)
(* An agent that is given a navigation checklist or none and runs one task *)
(* with an executor that fails, succeeds or raises.  The estimator draws   *)
(* no samples (uncertainty 1) in runs of up to AgentMaxSteps steps, or     *)
(* AgentSamples samples in runs of up to SampledMaxSteps steps.            *)
(***************************************************************************)
AgentMaxSteps == 4
SampledMaxSteps == 3
AgentMaxRetries == 1
AgentSamples == 4

AgentConfigs ==
    {[DefaultConfig EXCEPT !.max_steps = AgentMaxSteps,
                           !.min_samples = 0,
                           !.recovery_max_retries = r] :
         r \in 0..AgentMaxRetries}
    \cup {[DefaultConfig EXCEPT !.max_steps = SampledMaxSteps,
                                !.min_samples = AgentSamples,
                                !.recovery_max_retries = r] :
              r \in 0..AgentMaxRetries}

InitAgent ==
    /\ GraphInit
    /\ ManagerInit
    /\ StrategiesInit
    /\ candidates = <<>>
    /\ total_votes = 0
    /\ criteria = <<>>
    /\ legacy_items = EmptyMap
    /\ max_retries = DefaultMaxRetries
    /\ context = EmptyMap
    /\ attempt_history = <<>>
    /\ config \in AgentConfigs
    /\ current_step = 0
    /\ trajectory = <<>>
    /\ steps_without_progress = 0
    /\ retry_count = 0
    /\ last_progress = FracZero
    /\ task_type = NoTaskType
    /\ pc = "idle"
    /\ step = EmptyMap
    /\ prunable = <<>>
    /\ prune_base = 0
    /\ run_result = EmptyMap
    /\ last = Call("init", <<>>, NoneId, NoErr)

NextAgent ==
    \/ SetTaskType("navigation") \/ RunTask \/ AddInitialState
    \/ ExecuteStep \/ UpdateTrajectoryGraph \/ PruneTrajectory
    \/ FinishStep \/ RunTaskReturns

SpecAgent == InitAgent /\ [][NextAgent]_vars

(***************************************************************************)
(* A RedundancyStrategy with the default settings that is called on one    *)
(* graph only, and the graph is never reset.                               *)
(***************************************************************************)
UniqueMaxEdges == 4

UniqueAddEdge ==
    \E from_state, to_state \in MgrCallIds :
        /\ next_edge_id < UniqueMaxEdges
        /\ AddEdge(from_state, to_state, 1, TRUE, "", EmptyDict)
        /\ UNCHANGED <<mgrVars, agentVars>>

NextUnique ==
    MgrAddState \/ UniqueAddEdge \/ MgrPruneBranch \/ RegShouldPrune

SpecUnique == Init /\ [][NextUnique]_vars

(***************************************************************************)
(* One graph that is pruned through PruningManager.prune_if_needed alone:  *)
(* no prune_branch from outside, no reset, no clear_history.               *)
(***************************************************************************)
NextPruned == MgrAddState \/ MgrAddEdge \/ MgrRegister \/ MgrPruneIfNeeded

SpecPruned == Init /\ [][NextPruned]_vars

(***************************************************************************)
(* Graph vocabulary of the properties, defined on the edge table alone.    *)
(***************************************************************************)
NodeIds == DOMAIN nodes

OutEdges(sid) == {e \in DOMAIN edges : edges[e].source = sid}

Successors(sid) == {edges[e].target : e \in OutEdges(sid)}

RECURSIVE Reach(_)
Reach(S) ==
    LET more == S \cup UNION {Successors(s) : s \in S}
    IN  IF more = S THEN S ELSE Reach(more)

\* a is a strict ancestor of x.
StrictAncestor(a, x) == a # x /\ x \in Reach({a})

PruneStep == last'.op = "prune_branch" /\ last'.err = NoErr

(***************************************************************************)
(* C1: add_state with a payload whose hash is in the dedup index returns   *)
(* the id the index holds, pruned or not, and leaves the whole graph as it *)
(* was: node table (flags, action labels, metadata), counters, index.      *)
(***************************************************************************)
C1_DedupHitIsNoOp ==
    [][(/\ last'.op = "add_state"
        /\ GetStateHash(last'.args[1]) \in DOMAIN observation_to_state)
       => /\ last'.ret = observation_to_state[GetStateHash(last'.args[1])]
          /\ nodes' = nodes
          /\ next_node_id' = next_node_id
          /\ UNCHANGED graphVars]_vars

\* add_state has just returned a pruned node: a dedup hit on a pruned node,
\* since a node is created unpruned.
C1_Witness ==
    /\ last.op = "add_state"
    /\ nodes[last.ret].is_pruned

(***************************************************************************)
(* C3: after prune_branch(x) on an existing node x, x and every node       *)
(* reachable from x along outgoing edges (successful or failed) is pruned; *)
(* the call returns on cyclic graphs too.                                  *)
(***************************************************************************)
C3_PruneMarksReachable ==
    (last.op = "prune_branch" /\ last.err = NoErr)
        => /\ last.args[1] \in Reach({last.args[1]})
           /\ \A y \in Reach({last.args[1]}) : nodes[y].is_pruned

\* prune_branch has returned on a node that lies on a cycle and reaches a
\* further node over a failed edge.
C3_Witness ==
    /\ last.op = "prune_branch" /\ last.err = NoErr
    /\ last.args[1] \in UNION {Successors(s) : s \in Reach({last.args[1]})}
    /\ \E e \in DOMAIN edges :
          /\ ~edges[e].success
          /\ edges[e].source \in Reach({last.args[1]})
          /\ edges[e].target # last.args[1]
          /\ nodes[edges[e].target].is_pruned

(***************************************************************************)
(* C4 as claimed: prune_branch(x) leaves every strict ancestor of x that   *)
(* was unpruned before the call unpruned.                                  *)
(***************************************************************************)
C4_AncestorsStayUnpruned ==
    [][PruneStep =>
          \A a \in NodeIds :
              (StrictAncestor(a, last'.args[1]) /\ ~nodes[a].is_pruned)
                  => ~nodes'[a].is_pruned]_vars

(***************************************************************************)
(* C4 amended: prune_branch(x) changes no node that is not reachable from  *)
(* x; a strict ancestor of x that is not reachable from x (it is on no     *)
(* cycle through x) and was unpruned stays unpruned.                       *)
(***************************************************************************)
C4_UnreachableUntouched ==
    [][PruneStep =>
          \A a \in NodeIds :
              a \notin Reach({last'.args[1]}) => nodes'[a] = nodes[a]]_vars

\* prune_branch(x) has returned and a strict ancestor of x is unpruned.
C4_Witness ==
    /\ last.op = "prune_branch" /\ last.err = NoErr
    /\ \E a \in NodeIds :
          /\ StrictAncestor(a, last.args[1])
          /\ ~nodes[a].is_pruned

C6_UnknownEndpointRejected ==
    [][(/\ last'.op = "add_edge"
        /\ \/ last'.args[1] \notin NodeIds
           \/ last'.args[2] \notin NodeIds)
       => /\ \/ /\ last'.err = "Source state does not exist"
                /\ last'.ret = last'.args[1]
                /\ last'.args[1] \notin NodeIds
             \/ /\ last'.err = "Target state does not exist"
                /\ last'.ret = last'.args[2]
                /\ last'.args[2] \notin NodeIds
          /\ UNCHANGED graphVars]_vars

\* add_edge has raised for its target on a graph that holds an edge.
C6_Witness ==
    /\ last.op = "add_edge"
    /\ last.err = "Target state does not exist"
    /\ last.args[1] \in NodeIds
    /\ edges # EmptyMap

(***************************************************************************)
(* C8: get_prunable_branches returns exactly the non-pruned nodes that     *)
(* have no outgoing edge, or only failed outgoing edges, or that are       *)
(* members of a detected cycle without a successful outgoing edge whose    *)
(* target is outside the members of all detected cycles.                   *)
(***************************************************************************)
DetectedCycles == DetectCycles(nodes, edges, adjacency)

\* The ids that occur in a cycle list entry.
IdsOf(cycle) == {cycle[j] : j \in 1..Len(cycle)}

AllCycleMembers ==
    UNION {IdsOf(DetectedCycles[i]) : i \in 1..Len(DetectedCycles)}

Prunable == GetPrunableBranches(nodes, edges, adjacency)

C8_PrunableIsUnion ==
    \A sid \in NodeIds \cup Prunable :
        sid \in Prunable <=>
            /\ sid \in NodeIds
            /\ ~nodes[sid].is_pruned
            /\ \/ OutEdges(sid) = {}
               \/ \A e \in OutEdges(sid) : ~edges[e].success
               \/ /\ sid \in AllCycleMembers
                  /\ ~\E e \in OutEdges(sid) :
                         /\ edges[e].success
                         /\ edges[e].target \notin AllCycleMembers

\* A cycle member with a successful edge is returned, an unpruned node is
\* not returned, and a pruned node exists.
C8_Witness ==
    /\ \E sid \in Prunable : \E e \in OutEdges(sid) : edges[e].success
    /\ \E sid \in NodeIds : ~nodes[sid].is_pruned /\ sid \notin Prunable
    /\ \E sid \in NodeIds : nodes[sid].is_pruned

(***************************************************************************)
(* C9 as claimed: a node with at least one successful outgoing edge is     *)
(* never returned by get_prunable_branches.                                *)
(***************************************************************************)
C9_SuccessfulEdgeNeverPrunable ==
    \A sid \in NodeIds :
        (\E e \in OutEdges(sid) : edges[e].success) => sid \notin Prunable

(***************************************************************************)
(* C9 amended: a node with a successful outgoing edge is never returned    *)
(* by get_prunable_branches unless it is a member of a detected cycle and  *)
(* all its successful edges lead to members of detected cycles.            *)
(***************************************************************************)
C9_SuccessfulExitNeverPrunable ==
    \A sid \in NodeIds :
        (/\ \E e \in OutEdges(sid) : edges[e].success
         /\ \/ sid \notin AllCycleMembers
            \/ \E e \in OutEdges(sid) :
                   edges[e].success /\ edges[e].target \notin AllCycleMembers)
            => sid \notin Prunable

\* An unpruned cycle member has a successful edge that leaves the cycles.
C9_Witness ==
    \E sid \in AllCycleMembers :
        /\ ~nodes[sid].is_pruned
        /\ \E e \in OutEdges(sid) :
               edges[e].success /\ edges[e].target \notin AllCycleMembers

(***************************************************************************)
(* C2: without a graph reset, a node whose is_pruned flag is true keeps it *)
(* true across every add_state, add_edge, prune_branch and PruningManager  *)
(* call.                                                                   *)
(***************************************************************************)
C2_PrunedStaysPruned ==
    [][last'.op # "reset" =>
          \A sid \in NodeIds :
              nodes[sid].is_pruned
                  => sid \in DOMAIN nodes' /\ nodes'[sid].is_pruned]_vars

\* The manager has pruned a node and the graph was used afterwards: the
\* last call added an edge from a pruned node to an unpruned one.
C2_Witness ==
    /\ last.op = "add_edge" /\ last.err = NoErr
    /\ pruned_states # {}
    /\ last.args[1] \in pruned_states
    /\ nodes[last.args[1]].is_pruned
    /\ ~nodes[last.args[2]].is_pruned

(***************************************************************************)
(* C7 as claimed: add_state returns the same id for two payloads that are  *)
(* equal up to key order, and distinct ids for any two distinct payloads   *)
(* (strings, numbers, maps, lists): the id add_state returns belongs to a  *)
(* node that was created for a payload equal, up to key order, to the one  *)
(* passed in.                                                              *)
(***************************************************************************)
\* Python's == on payloads: dicts compare as sets of items.
PyEqual(p, q) ==
    /\ p.t = q.t
    /\ IF p.t = "dict"
       THEN {p.items[i] : i \in 1..Len(p.items)}
                = {q.items[i] : i \in 1..Len(q.items)}
       ELSE p = q

C7_SameIdIffEqualPayload ==
    last.op = "add_state" =>
        \A sid \in NodeIds :
            PyEqual(nodes[sid].observation_data, last.args[1])
                <=> last.ret = sid

(***************************************************************************)
(* C10: on nodes 0, 1, 2 with the edges 0->1, 1->2, 2->0 detect_cycles     *)
(* returns the one cycle [0, 1, 2, 0]; on a graph whose only edge is a     *)
(* self-loop s->s it returns one cycle, [s, s], whose only member is s.    *)
(***************************************************************************)
EdgePairs == {<<edges[e].source, edges[e].target>> : e \in DOMAIN edges}

C10_CycleShape ==
    /\ (/\ NodeIds = {0, 1, 2}
        /\ next_edge_id = 3
        /\ EdgePairs = {<<0, 1>>, <<1, 2>>, <<2, 0>>})
           => DetectedCycles = << <<0, 1, 2, 0>> >>
    /\ \A s \in NodeIds :
          (next_edge_id = 1 /\ EdgePairs = {<<s, s>>})
              => /\ DetectedCycles = << <<s, s>> >>
                 /\ IdsOf(DetectedCycles[1]) = {s}

\* The three-node cycle was closed by an edge added out of cycle order.
C10_Witness ==
    /\ NodeIds = {0, 1, 2}
    /\ next_edge_id = 3
    /\ EdgePairs = {<<0, 1>>, <<1, 2>>, <<2, 0>>}
    /\ edges[0].source = 2
    /\ edges[1].source = 0


\* The number of edges of a shortest route from a node of S to t, for t
\* reachable from S; d is the number of edges walked so far.
RECURSIVE Dist(_, _, _)
Dist(S, t, d) ==
    IF t \in S THEN d ELSE Dist(S \cup UNION {Successors(x) : x \in S}, t, d + 1)

\* C11: get_path_to_state(t) for an existing t that the root reaches returns
\* a path from the root to t along existing edges with the fewest possible
\* edges, and it returns the empty list exactly when the root does not reach
\* t; pruned nodes and failed edges are walked like any other.
C11_ShortestPathFromRoot ==
    (last.op = "get_path_to_state" /\ last.err = NoErr)
    => LET t == last.args[1]
           p == last.ret
       IN  IF t \in Reach({root_state_id})
           THEN /\ p # <<>>
                /\ p[1] = root_state_id
                /\ p[Len(p)] = t
                /\ \A i \in 1..(Len(p) - 1) : <<p[i], p[i + 1]>> \in EdgePairs
                /\ Len(p) - 1 = Dist({root_state_id}, t, 0)
           ELSE p = <<>>

\* A path over a failed edge into a pruned node, found although a longer
\* route of successful edges exists.
C11_Witness ==
    /\ last.op = "get_path_to_state"
    /\ last.ret = <<0, 2>>
    /\ EdgePairs = {<<0, 1>>, <<1, 2>>, <<0, 2>>}
    /\ edges[0].success /\ edges[1].success /\ ~edges[2].success
    /\ edges[2].source = 0 /\ edges[2].target = 2
    /\ nodes[2].is_pruned


\* A step that is a should_prune call on the strategy object `name`.
StrategyCall(name) ==
    /\ last.op = "should_prune"
    /\ last.err = NoErr
    /\ last.args[1] = name

\* The call was made on a node of the graph that is not pruned.
OnActiveState == last.args[2] \in NodeIds /\ ~nodes[last.args[2]].is_pruned

\* The cycles CycleElimination worked with in the call just made that hold
\* the evaluated state.
SeenCycles == StateCycles(cycle_cache, last.args[2])

\* The evaluated state has a successful edge out of the cycle c to a target
\* that passes the test `good` or is unpruned with an outgoing edge.
ExitFrom(c, good(_)) ==
    \E e \in OutEdges(last.args[2]) :
        /\ edges[e].success
        /\ edges[e].target \notin CycleMembers(c)
        /\ \/ good(edges[e].target)
           \/ /\ edges[e].target \in NodeIds
              /\ ~nodes[edges[e].target].is_pruned
              /\ OutEdges(edges[e].target) # {}

RecordedSuccessful(t) == t \in DOMAIN last.args[3] /\ last.args[3][t]

NotRecordedFailed(t) == t \notin DOMAIN last.args[3] \/ last.args[3][t]

\* C14 as stated: for an unpruned state in a detected cycle CycleElimination
\* answers keep exactly when, for one of its cycles, a successful edge leaves
\* the cycle to a target recorded as successful in the success history or
\* unpruned with an outgoing edge.
C14_KeepIffRecordedExit ==
    (StrategyCall("CycleElimination") /\ OnActiveState /\ SeenCycles # <<>>)
    => (~last.ret.should_prune
            <=> \E k \in 1..Len(SeenCycles) :
                    ExitFrom(SeenCycles[k], RecordedSuccessful))

\* C14 amended: the target of the exit counts as successful unless the
\* success history records it as failed; a target absent from the history is
\* successful.
C14_KeepIffExitNotFailed ==
    (StrategyCall("CycleElimination") /\ OnActiveState /\ SeenCycles # <<>>)
    => (~last.ret.should_prune
            <=> \E k \in 1..Len(SeenCycles) :
                    ExitFrom(SeenCycles[k], NotRecordedFailed))

\* Node 0, on a cycle, is kept for its successful edge to node 1, a leaf the
\* empty history says nothing about.
C14_Witness ==
    /\ StrategyCall("CycleElimination")
    /\ last.args[2] = 0
    /\ last.args[3] = EmptyMap
    /\ SeenCycles # <<>>
    /\ last.ret.reason = "Cycle has productive exit from state 0"
    /\ 1 \in NodeIds
    /\ OutEdges(1) = {}


\* The step is a CycleElimination.should_prune call on an unpruned node.
CycleCallStep ==
    /\ last'.op = "should_prune"
    /\ last'.args[1] = "CycleElimination"
    /\ last'.args[2] \in NodeIds
    /\ ~nodes[last'.args[2]].is_pruned

\* C15: CycleElimination detects the cycles on its first evaluation of an
\* unpruned node and works with that list in every later evaluation until
\* invalidate_cache: add_state and add_edge leave the list alone, an
\* evaluation with a valid cache answers from the cached list whatever the
\* graph has become, and the first evaluation after invalidate_cache detects
\* the cycles of the graph as it is then.
C15_CacheReusedUntilInvalidated ==
    [][/\ (CycleCallStep /\ cache_valid)
            => /\ cache_valid'
               /\ cycle_cache' = cycle_cache
               /\ (last'.ret.reason = "State not in any cycle"
                      <=> StateCycles(cycle_cache, last'.args[2]) = <<>>)
       /\ (CycleCallStep /\ ~cache_valid)
            => /\ cache_valid'
               /\ cycle_cache' = DetectedCycles
               /\ (last'.ret.reason = "State not in any cycle"
                      <=> StateCycles(DetectedCycles, last'.args[2]) = <<>>)
       /\ last'.op = "invalidate_cache" => ~cache_valid'
       /\ last'.op \in {"add_state", "add_edge"}
            => UNCHANGED <<cache_valid, cycle_cache>>]_vars

\* An evaluation that answered from a stale list: node 0 is on a cycle of
\* the graph, the cached list has no cycle through it.
C15_Witness ==
    /\ StrategyCall("CycleElimination")
    /\ last.args[2] = 0
    /\ last.ret.reason = "State not in any cycle"
    /\ 0 \in AllCycleMembers
    /\ stats["CycleElimination"].evaluations = 2


\* C16: for an unpruned node DeadEnd answers prune exactly when the node has
\* no outgoing edge, or every outgoing edge failed, or propagate_failures is
\* on and at least failure_threshold of the nodes reachable from it (itself
\* included, each counted once, over edges of either success value) are
\* reported as not successful by the context.
C16_DeadEndVerdict ==
    (StrategyCall("DeadEnd") /\ OnActiveState)
    => LET sid == last.args[2]
           reached == Reach({sid})
           failing == reached \cap FailedOf(last.args[3])
       IN  last.ret.should_prune
             <=> \/ OutEdges(sid) = {}
                 \/ \A e \in OutEdges(sid) : ~edges[e].success
                 \/ /\ propagate_failures
                    /\ Cardinality(failing) * FailureThresholdDen
                         >= FailureThresholdNum * Cardinality(reached)

\* Node 0 is pruned for its failure rate alone: it has a successful edge,
\* and all three nodes it reaches, one of them over a failed edge, are
\* reported as failed.
C16_Witness ==
    /\ StrategyCall("DeadEnd")
    /\ last.args[2] = 0
    /\ last.ret.reason = "High failure rate"
    /\ Reach({0}) = {0, 1, 2}
    /\ \E e \in DOMAIN edges : ~edges[e].success


\* The step is a Redundancy.should_prune call on an unpruned node.
RedundancyCallStep ==
    /\ last'.op = "should_prune"
    /\ last'.args[1] = "Redundancy"
    /\ last'.args[2] \in NodeIds
    /\ ~nodes[last'.args[2]].is_pruned

\* C19: with the hash check on, Redundancy answers prune for an unpruned
\* state whenever its registry holds the state's hash under another id that
\* is in the graph and unpruned; a state whose hash the registry does not
\* hold is entered under its id and is not pruned as a duplicate hash.
C19_HashDuplicatePruned ==
    [][RedundancyCallStep
        => LET sid == last'.args[2]
               h == nodes[sid].observation_hash
           IN  /\ (/\ h \in DOMAIN observation_hashes
                   /\ observation_hashes[h] # sid
                   /\ observation_hashes[h] \in NodeIds
                   /\ ~nodes[observation_hashes[h]].is_pruned)
                    => /\ last'.ret.should_prune
                       /\ observation_hashes' = observation_hashes
               /\ h \notin DOMAIN observation_hashes
                    => /\ h \in DOMAIN observation_hashes'
                       /\ observation_hashes'[h] = sid
                       /\ last'.ret.reason # "Duplicate observation hash"]_vars

\* Node 1 is pruned as a duplicate of the id 0 its hash was registered under
\* before the graph was reset.
C19_Witness ==
    /\ StrategyCall("Redundancy")
    /\ last.args[2] = 1
    /\ last.ret.reason = "Duplicate observation hash"
    /\ observation_hashes[nodes[1].observation_hash] = 0


\* The unpruned siblings of a node: the other children of its predecessors.
Siblings(sid) ==
    {edges[e].target :
        e \in {x \in DOMAIN edges :
                  \E y \in DOMAIN edges :
                      /\ edges[y].target = sid
                      /\ edges[y].source = edges[x].source}}
    \cap {x \in NodeIds : x # sid /\ ~nodes[x].is_pruned}

\* C20 as stated: with the structural check on and no hash match,
\* Redundancy answers prune exactly when one of the unpruned siblings of the
\* state is similar to it to at least 1 - epsilon.
C20_PrunedIffSomeSiblingSimilar ==
    (/\ StrategyCall("Redundancy")
     /\ OnActiveState
     /\ last.ret.reason # "Duplicate observation hash")
    => (last.ret.should_prune
          <=> \E x \in Siblings(last.args[2]) :
                  Similar(CalculateSimilarity(last.args[2], x, nodes, edges,
                                              adjacency)))


\* The step is a should_prune call on the composite.
CompositeCallStep ==
    /\ last'.op = "should_prune"
    /\ last'.args[1] = CompositeName

SubNames == {composite_strategies[i] : i \in 1..Len(composite_strategies)}

\* The sub-strategies that recommend pruning sid, asked on their own in the
\* state before the call.
Recommenders(sid, success_history) ==
    {n \in SubNames :
        LeafShouldPrune(n, sid, nodes, edges, adjacency,
                        FailedOf(success_history)).decision.should_prune}

\* The member of a set of strategies with the highest priority.
Top(P) == CHOOSE n \in P : \A x \in P : Priority(x) <= Priority(n)

InvokedOnce(n) == stats'[n].evaluations = stats[n].evaluations + 1

NotInvoked(n) == stats'[n] = stats[n]

\* PRIORITY mode: prune with the priority and the decision of the
\* recommender of the highest priority, the strategies ranked behind it not
\* invoked; keep, every strategy invoked, when nobody recommends pruning.
PriorityModeRule ==
    (CompositeCallStep /\ combination_mode = "priority")
    => LET sid == last'.args[2]
           pos == Recommenders(sid, last'.args[3])
       IN  IF pos = {}
           THEN /\ ~last'.ret.should_prune
                /\ \A n \in SubNames : InvokedOnce(n)
           ELSE /\ last'.ret.should_prune
                /\ last'.ret.priority = Priority(Top(pos))
                /\ last'.ret.metadata.source_decision
                     = LeafShouldPrune(Top(pos), sid, nodes, edges, adjacency,
                           FailedOf(last'.args[3])).decision
                /\ \A n \in SubNames :
                       IF Priority(n) >= Priority(Top(pos))
                       THEN InvokedOnce(n) ELSE NotInvoked(n)

\* The call is made on an unpruned dead end (no outgoing edge, or failed
\* ones only) by a composite that holds CycleElimination and DeadEnd.
DeadEndCallStep ==
    /\ CompositeCallStep
    /\ combination_mode = "priority"
    /\ {"CycleElimination", "DeadEnd"} \subseteq SubNames
    /\ last'.args[2] \in NodeIds
    /\ ~nodes[last'.args[2]].is_pruned
    /\ \A e \in OutEdges(last'.args[2]) : ~edges[e].success

AttributedToDeadEnd ==
    /\ last'.ret.should_prune
    /\ last'.ret.priority = DeadEndPriority
    /\ last'.ret.metadata.source_decision.strategy_name = "DeadEnd"

C18_AnyAndAllModes ==
    [][(/\ CompositeCallStep
        /\ combination_mode \in {"any", "all"}
        /\ composite_strategies # <<>>)
        => LET pos == Recommenders(last'.args[2], last'.args[3])
           IN  /\ \A n \in SubNames : InvokedOnce(n)
               /\ combination_mode = "any"
                    => /\ last'.ret.should_prune <=> pos # {}
                       /\ pos # {}
                            => last'.ret.priority = Priority(Top(pos))
               /\ combination_mode = "all"
                    => (last'.ret.should_prune <=> pos = SubNames)]_vars

\* ANY mode prunes on DeadEnd's word alone and reports DeadEnd's priority,
\* not the priority of CycleElimination, which said keep.
C18_Witness ==
    /\ StrategyCall(CompositeName)
    /\ combination_mode = "any"
    /\ composite_strategies = <<"CycleElimination", "DeadEnd">>
    /\ last.ret.should_prune
    /\ last.ret.priority = DeadEndPriority
    /\ stats["CycleElimination"].kept = 1


\* The operations that are handed the graph to prune in it, and the
\* operations of the manager.
FrameOps ==
    {"prune_branch", "evaluate", "prune_if_needed", "register_strategy",
     "enable", "disable"}

\* The node table differs in is_pruned flags at most.
OnlyFlagsChange ==
    /\ DOMAIN nodes' = DOMAIN nodes
    /\ \A n \in DOMAIN nodes :
           [nodes'[n] EXCEPT !.is_pruned = nodes[n].is_pruned] = nodes[n]

\* C12: prune_branch and the operations of the PruningManager change
\* nothing of the graph but is_pruned flags: the nodes are the same, and the
\* edge table, the adjacency maps, the dedup index, the root id and the id
\* counters are unchanged; every edge stays as it is until reset.
C12_PruningOnlyFlags ==
    [][/\ last'.op \in FrameOps
            => /\ OnlyFlagsChange
               /\ UNCHANGED <<edges, adjacency, reverse_adjacency,
                              observation_to_state, root_state_id,
                              next_node_id, next_edge_id>>
       /\ last'.op # "reset"
            => \A e \in DOMAIN edges :
                   e \in DOMAIN edges' /\ edges'[e] = edges[e]]_vars

\* prune_if_needed pruned a state and its child, and the edge between them
\* is still in the table.
C12_Witness ==
    /\ last.op = "prune_if_needed"
    /\ last.ret = TRUE
    /\ \E e \in DOMAIN edges :
           /\ edges[e].source = last.args[1]
           /\ edges[e].target # last.args[1]
           /\ nodes[edges[e].source].is_pruned
           /\ nodes[edges[e].target].is_pruned

\* The step is an evaluation of a strategy, on the object or through a
\* manager that has a strategy to evaluate.
EvaluationStep ==
    \/ last'.op = "should_prune"
    \/ last'.op \in {"evaluate", "prune_if_needed"} /\ strategies # {}

EvaluatedId ==
    IF last'.op = "should_prune" THEN last'.args[2] ELSE last'.args[1]

\* C13: an evaluation of CycleElimination, DeadEnd, Redundancy or their
\* composite, on the object or through evaluate or prune_if_needed of the
\* manager, on an id that is absent from the graph or already pruned raises
\* nothing, says keep and leaves the graph as it is.
C13_AbsentOrPrunedKept ==
    [][(/\ EvaluationStep
        /\ \/ EvaluatedId \notin DOMAIN nodes
           \/ nodes[EvaluatedId].is_pruned)
        => /\ last'.err = NoErr
           /\ IF last'.op = "prune_if_needed"
              THEN last'.ret = FALSE
              ELSE ~last'.ret.should_prune
           /\ UNCHANGED graphVars]_vars

\* prune_if_needed with the composite as default strategy answered False
\* for a state that was pruned before the call.
C13_Witness ==
    /\ last.op = "prune_if_needed"
    /\ last.err = NoErr
    /\ last.ret = FALSE
    /\ default_strategy = CompositeName
    /\ last.args[1] \in DOMAIN nodes
    /\ nodes[last.args[1]].is_pruned
    /\ AdjGet(adjacency, last.args[1]) = <<>>


\* C21: the counters of every strategy, the composite included, add up:
\* evaluations = pruned + kept after any sequence of evaluations.
C21_CountersAddUp ==
    \A n \in DOMAIN stats :
        stats[n].evaluations = stats[n].pruned + stats[n].kept


\* The calls the hooks received in this step.
NewHookCalls ==
    SubSeq(hook_calls', Len(hook_calls) + 1, Len(hook_calls'))

\* C22: while pruning is enabled, an evaluate call that returns appends the
\* decision it returns to the history and leaves the earlier entries alone,
\* adds the state id to the pruned-state set exactly on a prune verdict, and
\* calls every registered hook once with that decision; history and
\* pruned-state set lose entries through clear_history only.
C22_EvaluateRecordsAndNotifies ==
    [][/\ (last'.op = "evaluate" /\ last'.err = NoErr /\ enabled)
            => /\ history' = Append(history, last'.ret)
               /\ pruned_states' =
                      IF last'.ret.should_prune
                      THEN pruned_states \cup {last'.args[1]}
                      ELSE pruned_states
               /\ SubSeq(hook_calls', 1, Len(hook_calls)) = hook_calls
               /\ Len(NewHookCalls) = Len(hooks)
               /\ \A i \in 1..Len(hooks) :
                      /\ NewHookCalls[i].hook = hooks[i]
                      /\ NewHookCalls[i].decision = last'.ret
       /\ last'.op # "clear_history"
            => /\ Len(history') >= Len(history)
               /\ SubSeq(history', 1, Len(history)) = history
               /\ pruned_states \subseteq pruned_states']_vars

\* A second evaluation, with a prune verdict, was appended behind a keep
\* verdict and handed to two hooks.
C22_Witness ==
    /\ last.op = "evaluate"
    /\ last.err = NoErr
    /\ enabled
    /\ Len(history) = 2
    /\ ~history[1].should_prune
    /\ history[2] = last.ret
    /\ last.ret.should_prune
    /\ last.args[1] \in pruned_states
    /\ hooks = <<"h1", "h2">>
    /\ Len(hook_calls) >= 2
    /\ hook_calls[Len(hook_calls)] = [hook |-> "h2", decision |-> last.ret]


\* The step is an evaluate or prune_if_needed call on a disabled manager.
DisabledCallStep ==
    /\ last'.op \in {"evaluate", "prune_if_needed"}
    /\ ~enabled

\* The step is an evaluate call that returned, on an enabled manager.
EnabledEvaluateStep ==
    /\ last'.op = "evaluate"
    /\ last'.err = NoErr
    /\ enabled

\* C23: on a disabled manager evaluate returns keep with the reason
\* 'Pruning is disabled' and no strategy is invoked (counters, cycle cache
\* and hash registry stay), prune_if_needed returns False and the graph
\* stays; on an enabled manager the evaluation reaches the strategy.
C23_DisabledGate ==
    [][/\ DisabledCallStep
            => /\ last'.err = NoErr
               /\ IF last'.op = "evaluate"
                  THEN /\ ~last'.ret.should_prune
                       /\ last'.ret.reason = "Pruning is disabled"
                  ELSE last'.ret = FALSE
               /\ UNCHANGED <<stats, cacheVars, graphVars, history,
                              pruned_states>>
       /\ EnabledEvaluateStep
            => /\ last'.ret.strategy_name = ResolveName(NoName)
               /\ last'.ret = ShouldPrune(ResolveName(NoName), last'.args[1],
                                  nodes, edges, adjacency, {}).decision
               /\ ResolveName(NoName) \in LeafNames
                    => InvokedOnce(ResolveName(NoName))]_vars

\* prune_if_needed answered False on a disabled manager for an unpruned
\* leaf that the registered DeadEnd strategy prunes when asked.
C23_Witness ==
    /\ last.op = "prune_if_needed"
    /\ last.ret = FALSE
    /\ last.err = NoErr
    /\ ~enabled
    /\ default_strategy = "DeadEnd"
    /\ last.args[1] \in DOMAIN nodes
    /\ ~nodes[last.args[1]].is_pruned
    /\ AdjGet(adjacency, last.args[1]) = <<>>


\* The step is a prune_if_needed call that returned, on an enabled manager.
PruneIfNeededStep ==
    /\ last'.op = "prune_if_needed"
    /\ last'.err = NoErr
    /\ enabled

\* The verdicts the default strategy gives for the state of the call, one
\* per context the caller may pass.
Verdicts ==
    { ShouldPrune(ResolveName(NoName), last'.args[1], nodes, edges,
                  adjacency, failed).decision : failed \in MgrContexts }

\* C24: prune_if_needed returns True exactly when the verdict of the
\* selected strategy, the decision it records, is prune; then the state and
\* every node reachable from it are pruned afterwards; on a keep verdict
\* the nodes are untouched.
C24_PruneIfNeededFollowsVerdict ==
    [][PruneIfNeededStep
         => /\ history' = Append(history, history'[Len(history')])
            /\ history'[Len(history')] \in Verdicts
            /\ last'.ret = history'[Len(history')].should_prune
            /\ IF last'.ret
               THEN \A n \in Reach({last'.args[1]}) :
                        n \in DOMAIN nodes' /\ nodes'[n].is_pruned
               ELSE nodes' = nodes]_vars

\* prune_if_needed answered True for a state with another node below it,
\* and both are pruned.
C24_Witness ==
    /\ last.op = "prune_if_needed"
    /\ last.ret = TRUE
    /\ last.err = NoErr
    /\ \E n \in Reach({last.args[1]}) :
           /\ n # last.args[1]
           /\ nodes[n].is_pruned
           /\ nodes[last.args[1]].is_pruned


\* C25: after reset the graph is empty, and no verdict rests on data a
\* strategy kept from the graph before the reset: a state pruned for a
\* duplicate hash has its hash in common with the state it duplicates, and
\* a state pruned by CycleElimination lies on a cycle of the graph.
C25_ResetLeavesNothingBehind ==
    /\ last.op = "reset"
         => /\ nodes = EmptyMap /\ edges = EmptyMap
            /\ adjacency = EmptyMap /\ reverse_adjacency = EmptyMap
            /\ observation_to_state = EmptyMap
            /\ root_state_id = NoneId
            /\ next_node_id = 0 /\ next_edge_id = 0
    /\ (/\ StrategyCall("Redundancy")
        /\ last.ret.reason = "Duplicate observation hash")
         => LET h == nodes[last.args[2]].observation_hash
            IN  nodes[observation_hashes[h]].observation_hash = h
    /\ (StrategyCall("CycleElimination") /\ last.ret.should_prune)
         => last.args[2] \in AllCycleMembers


\* The distribution held.
Votes == [candidates |-> candidates, total_votes |-> total_votes]

\* The fractions of a stats dict.
StatKeys ==
    {"entropy", "normalized_entropy", "variance", "pairwise_disagreement",
     "confidence"}

\* C26: generate_votes with n_samples = 0 returns, without an error, a
\* distribution of no votes and no candidates; get_uncertainty_stats on a
\* distribution of no votes divides by nothing that is zero and gives 0 for
\* entropy, normalized entropy, variance, pairwise disagreement and
\* confidence; get_compute_budget on those stats returns min_samples.
C26_ZeroSamples ==
    /\ (last.op = "generate_votes" /\ last.args[2] = 0)
         => /\ last.err = NoErr
            /\ last.ret = EmptyVotes
            /\ Votes = EmptyVotes
    /\ (last.op = "get_uncertainty_stats" /\ total_votes = 0)
         => /\ last.err = NoErr
            /\ \A k \in StatKeys :
                   last.ret[k].den > 0 /\ last.ret[k].num = 0
    /\ (/\ last.op = "get_compute_budget"
        /\ last.args[1] = GetUncertaintyStats(EmptyVotes))
         => last.err = NoErr /\ last.ret = last.args[2]

\* The budget was asked for the statistics of the distribution
\* generate_votes returned for zero samples.
C26_Witness ==
    /\ last.op = "get_compute_budget"
    /\ Votes = EmptyVotes
    /\ last.args[1] = GetUncertaintyStats(Votes)
    /\ last.args[1].total_votes = 0
    /\ last.args[2] = 5
    /\ last.ret = 5

\* The call is get_compute_budget on stats that hold a normalized entropy.
BudgetCall ==
    /\ last.op = "get_compute_budget"
    /\ "normalized_entropy" \in DOMAIN last.args[1]

\* min_samples + (max_samples - min_samples) * normalized_entropy of the
\* call, as a fraction.
Interpolated ==
    LET u == last.args[1].normalized_entropy
    IN  Frac(last.args[2] * u.den + (last.args[3] - last.args[2]) * u.num,
             u.den)

Abs(x) == IF x < 0 THEN -x ELSE x

\* C27: get_compute_budget returns an integer nearest to the interpolated
\* value (no integer is nearer); with min_samples <= max_samples and the
\* normalized entropy in [0, 1] it lies between the two, is min_samples at
\* 0 and max_samples at 1, and is 9 for (5, 15, 0.4).
C27_BudgetNearest ==
    BudgetCall
    => LET u == last.args[1].normalized_entropy
           x == Interpolated
       IN  /\ 2 * Abs(last.ret * x.den - x.num) <= x.den
           /\ (/\ last.args[2] <= last.args[3]
               /\ FracLeq(FracZero, u) /\ FracLeq(u, Frac(1, 1)))
                => /\ last.args[2] <= last.ret
                   /\ last.ret <= last.args[3]
                   /\ u.num = 0 => last.ret = last.args[2]
                   /\ FracEq(u, Frac(1, 1)) => last.ret = last.args[3]
                   /\ (/\ last.args[2] = 5 /\ last.args[3] = 15
                       /\ FracEq(u, Frac(2, 5)))
                        => last.ret = 9

\* The budget 9 for min 5, max 15 and a normalized entropy of 0.4.
C27_Witness ==
    /\ BudgetCall
    /\ last.args[1].normalized_entropy = Frac(8, GridDen)
    /\ last.args[2] = 5
    /\ last.args[3] = 15
    /\ last.ret = 9

\* Every action a vote can name.
AllActions ==
    {"click_button", "fill_form", "scroll_down", "go_back", "submit_form",
     "clear_field", "type_query", "press_enter", "clear_search", "click",
     "type", "scroll", "wait"}

\* The per-candidate counts of a distribution, whatever the order of its
\* dict.
CountsOf(d) == [a \in AllActions |-> CandidatesGet(d.candidates, a)]

\* The orders in which the votes of a list can be cast.
Reorderings(seq) ==
    {[i \in 1..Len(seq) |-> seq[f[i]]] : f \in Permutations(1..Len(seq))}

\* A partial tally fanned into a distribution: each of its votes is added.
MergeInto(d, part) == Tally(d, IndividualVotes(part.candidates))

\* C28: the counts after a list of add_vote calls are the same for every
\* order of the calls and for every split of them into two tallies merged
\* afterwards, and total_votes is the sum of the counts.
C28_OrderIndependent ==
    /\ total_votes = SumCounts(candidates)
    /\ last.op = "generate_votes"
         => \A p \in Reorderings(last.args[4]) :
                /\ CountsOf(Tally(EmptyVotes, p)) = CountsOf(last.ret)
                /\ Tally(EmptyVotes, p).total_votes = last.ret.total_votes
                /\ \A k \in 0..Len(p) :
                       LET merged ==
                               MergeInto(
                                   Tally(EmptyVotes, SubSeq(p, 1, k)),
                                   Tally(EmptyVotes, SubSeq(p, k + 1, Len(p))))
                       IN  /\ CountsOf(merged) = CountsOf(last.ret)
                           /\ merged.total_votes = last.ret.total_votes
                           /\ merged.total_votes
                                = SumCounts(merged.candidates)

\* Three votes for two actions, which in another order fill the dict in
\* another order.
C28_Witness ==
    /\ last.op = "generate_votes"
    /\ last.ret.total_votes = 3
    /\ Len(last.ret.candidates) = 2
    /\ \E p \in Reorderings(last.args[4]) :
           Tally(EmptyVotes, p).candidates # last.ret.candidates


\* The step is an evaluate call on the checklist or on one criterion.
ChecklistEvaluationStep ==
    last'.op \in {"checklist_evaluate", "criterion_evaluate"}

\* The elements of a list.
Elements(seq) == {seq[i] : i \in 1..Len(seq)}

\* C29: an evaluate call, on the checklist or on the criterion, with any
\* step data leaves a satisfied criterion satisfied and reports it as
\* satisfied: the criterion's evaluate returns True, the checklist's names
\* it among all_satisfied and not among newly_satisfied, by its place in
\* the list.
C29_SatisfiedStays ==
    [][ChecklistEvaluationStep
        => /\ Len(criteria') = Len(criteria)
           /\ \A i \in 1..Len(criteria) :
                  criteria[i].is_satisfied
                  => /\ criteria'[i] = criteria[i]
                     /\ last'.op = "criterion_evaluate" /\ last'.args[2] = i
                          => last'.ret = TRUE
                     /\ last'.op = "checklist_evaluate"
                          => /\ criteria[i].description
                                  \in Elements(last'.ret.all_satisfied)
                             /\ Len(last'.ret.all_satisfied)
                                  = Cardinality({j \in 1..Len(criteria) :
                                        criteria'[j].is_satisfied})
                             /\ Len(last'.ret.newly_satisfied)
                                  = Cardinality({j \in 1..Len(criteria) :
                                        /\ criteria'[j].is_satisfied
                                        /\ ~criteria[j].is_satisfied})]_vars

\* The checklist was evaluated on step data for which the check function
\* of a satisfied criterion returns False, and for which that of another
\* satisfied criterion raises.
C29_Witness ==
    /\ last.op = "checklist_evaluate"
    /\ Len(criteria) = 2
    /\ \A i \in 1..2 :
           /\ criteria[i].is_satisfied
           /\ criteria[i].check_function # NoFunction
    /\ \E i \in 1..2 :
           CallCheckFunction(criteria[i].check_function,
                             last.args[1]).raised
    /\ \E i \in 1..2 :
           LET r == CallCheckFunction(criteria[i].check_function,
                                      last.args[1])
           IN  ~r.raised /\ ~r.result
    /\ Len(last.ret.all_satisfied) = 2
    /\ last.ret.is_complete

\* The call is Checklist.evaluate on a checklist without criteria.
NoCriteriaEvaluated ==
    /\ last.op = "checklist_evaluate"
    /\ criteria = <<>>

\* C30 as stated: a checklist without criteria reports score 0 and
\* is_complete = true from evaluate, in every state.
C30_EmptyIsComplete ==
    NoCriteriaEvaluated
    => /\ last.ret.score.num = 0
       /\ last.ret.is_complete

\* C30: a checklist without criteria reports score 0 from evaluate, and
\* is_complete = true exactly when none of its legacy items is short of
\* completed, as when it has no items.
C30_EmptyIsCompleteByItems ==
    NoCriteriaEvaluated
    => /\ last.ret.score.num = 0
       /\ last.ret.progress.num = 0
       /\ last.ret.is_complete
            <=> \A id \in DOMAIN legacy_items :
                    legacy_items[id].status = "completed"

\* A checklist without criteria and without items was evaluated.
C30_Witness ==
    /\ NoCriteriaEvaluated
    /\ DOMAIN legacy_items = {}
    /\ last.ret.score = FracZero
    /\ last.ret.is_complete


\* C34: in every state of the graph a pruned node has only pruned nodes
\* within reach along outgoing edges, whatever was added since it was
\* pruned.
C34_PrunedClosedUnderReach ==
    \A n \in NodeIds :
        nodes[n].is_pruned
        => \A y \in Reach({n}) : nodes[y].is_pruned


\* The nodes that lie on a directed cycle of the graph: those that reach
\* themselves over at least one edge.
OnCycle == {n \in NodeIds : n \in Reach(Successors(n))}

\* C35: every node on a directed cycle of the graph is a member of a cycle
\* detect_cycles returns.
C35_CycleNodesDetected == OnCycle \subseteq AllCycleMembers

\* C36: detect_cycles returns the empty list exactly when the graph has no
\* directed cycle, a self-loop counting as one.
C36_EmptyIffAcyclic == (DetectedCycles = <<>>) <=> (OnCycle = {})

\* A graph whose only cycle is a self-loop, which detect_cycles returns,
\* beside an edge that closes none.
C36_Witness ==
    /\ EdgePairs = {<<0, 1>>, <<1, 1>>}
    /\ OnCycle = {1}
    /\ DetectedCycles = << <<1, 1>> >>


\* C37: no two nodes share a content hash, the dedup index maps the hash of
\* each node to its id and holds nothing else, the ids are 0..n-1 as
\* handed out, and the root is node 0 of a graph with nodes and None of one
\* without.
C37_GraphWellFormed ==
    /\ \A a \in NodeIds : \A b \in NodeIds :
           a # b => nodes[a].observation_hash # nodes[b].observation_hash
    /\ DOMAIN observation_to_state
         = {nodes[n].observation_hash : n \in NodeIds}
    /\ \A n \in NodeIds :
           /\ observation_to_state[nodes[n].observation_hash] = n
           /\ nodes[n].state_id = n
    /\ NodeIds = 0..(next_node_id - 1)
    /\ root_state_id = IF NodeIds = {} THEN NoneId ELSE 0

\* add_state answered a known observation with the id of its node, in a
\* graph of three nodes.
C37_Witness ==
    /\ last.op = "add_state"
    /\ NodeIds = {0, 1, 2}
    /\ last.ret = 1
    /\ root_state_id = 0
    /\ Cardinality(DOMAIN observation_to_state) = 3


\* C38: with all pruning done through the manager and the history never
\* cleared, get_pruned_states() is the set of the nodes whose is_pruned
\* flag is set.
C38_PrunedStatesAreFlags ==
    pruned_states = {n \in NodeIds : nodes[n].is_pruned}


\* C39: a Redundancy strategy with the default settings that is used with
\* one never-reset graph only never answers prune.
C39_DefaultRedundancyKeeps ==
    StrategyCall("Redundancy") => ~last.ret.should_prune

\* The state asked about is registered under another hash than its sibling,
\* shares its action with the sibling and has the same successors, which is
\* the highest similarity two nodes of one graph reach.
C39_Witness ==
    /\ StrategyCall("Redundancy")
    /\ last.ret.reason = "State is unique"
    /\ \E x \in Siblings(last.args[2]) :
           /\ nodes[x].action = nodes[last.args[2]].action
           /\ Successors(x) = Successors(last.args[2])
           /\ Successors(x) # {}
    /\ Cardinality(DOMAIN observation_hashes) = 2


\* The number of retries made on the context since it started at 0.
Retries == ContextGet(context, "retry_count", 0)

\* C32: from retry_count = 0, assess_failure followed by execute_recovery
\* on one context chooses RETRY max_retries times in a row, each raising
\* retry_count by one, and then chooses HUMAN_IN_LOOP if uncertainty > 0.8,
\* otherwise BACKTRACK to current_step - 1 if current_step > 0, otherwise
\* RESET.
C32_RetriesThenEscalates ==
    /\ Retries <= max_retries
    /\ last.op = "assess_failure"
         => /\ Retries < max_retries
                => /\ last.ret.strategy = "retry"
                   /\ ExecuteRecovery(last.ret, context)
                          = ContextSet(context, "retry_count", Retries + 1)
            /\ Retries = max_retries
                => /\ last.ret.strategy
                          = IF HighUncertainty(context.uncertainty)
                            THEN "human_in_loop"
                            ELSE IF context.current_step > 0
                            THEN "backtrack" ELSE "reset"
                   /\ last.ret.strategy = "backtrack"
                          => last.ret.target_step = context.current_step - 1

\* Three retries in a row were followed by a backtrack to step 1.
C32_Witness ==
    /\ last.op = "execute_recovery"
    /\ last.args[1].strategy = "backtrack"
    /\ ContextGet(last.args[2], "retry_count", 0) = 3
    /\ max_retries = 3
    /\ context.current_step = 1
    /\ Retries = 0


\* C40 as stated: after every completed execute_step with the default
\* pruning configuration, the node of the state just reached is not pruned.
C40_ReachedStateUnpruned ==
    last.op = "execute_step" => ~nodes[last.ret.state_id].is_pruned

\* C33: run_task returns with steps_taken <= config.max_steps, whatever the
\* executor did and whatever recoveries ran.
C33_StepsTakenBounded ==
    /\ pc \in {"loop", "edge", "prune", "returned"}
           => run_result.steps_taken <= config.max_steps
    /\ current_step <= config.max_steps

\* A run that backtracked once returned with steps_taken = max_steps.
C33_Witness ==
    /\ pc = "returned"
    /\ run_result.steps_taken = config.max_steps
    /\ \E i \in 1..Len(attempt_history) :
           attempt_history[i].action.strategy = "backtrack"

\* C31 as stated: after a recovery that selected HUMAN_IN_LOOP the run
\* executes no further step.
C31_HumanInLoopStops ==
    [][(/\ last.op = "execute_step"
        /\ last.ret.recovery = "human_in_loop")
           => pc' # "edge"]_vars

====
